---- MODULE Spec2Model ----
(***************************************************************************)
(* Model of the postings cursors of src/postings/segment_postings.rs:      *)
(* BlockSegmentPostings (cursor over blocks of a posting list),            *)
(* PositionComputer (lazy decoding of token positions) and SegmentPostings *)
(* (document cursor with delete filtering, advance and skip_next); of the   *)
(* ExcludeScorer of src/query/exclude.rs; of the term streamer of          *)
(* src/termdict/streamdict/streamer.rs (builder, stream, deserialize_vint);*)
(* of TermWeight (src/query/term_query/term_weight.rs) and RangeWeight     *)
(* (src/query/range_query.rs) over a segment; and of the AnalyzerManager   *)
(* of src/analyzer/analyzer_manager.rs shared by threads.                  *)
(*                                                                         *)
(* Spec runs a SegmentPostings, SpecBlock a BlockSegmentPostings on its    *)
(* own, SpecExclude an ExcludeScorer, SpecStream a term stream builder and *)
(* its stream, SpecVint deserialize_vint, SpecTerm a TermWeight and its    *)
(* scorer, SpecRange a RangeWeight and its scorer, SpecAnalyzer an         *)
(* AnalyzerManager. The variables of the objects a specification does not  *)
(* build stay at NotBuilt.                                                 *)
(*                                                                         *)
(* Indices are 0-based in the source and 1-based in TLA+ sequences: the    *)
(* source's docs[i] is docs[i + 1] here.                                   *)
(***************************************************************************)
EXTENDS Integers, Sequences, FiniteSets, TLC

\* ------------------------------------------------------------------ bounds

\* doc ids of the segment are 0..MaxDoc
MaxDoc == 4
\* a block holds 2^BlockBits docs (the source's blocks hold 128 = 2^7)
BlockBits == 1
\* term frequencies range over 1..MaxFreq
MaxFreq == 3
\* number of term-frequency assignments tried per posting list
NumFreqPatterns == 2
\* byte strings handed to deserialize_vint have at most MaxVintLen bytes
MaxVintLen == 3
\* a term dictionary holds at most MaxTerms keys
MaxTerms == 3
\* the dictionary's index has an entry every IndexInterval keys
IndexInterval == 2
\* the threads of a run call register() at most MaxRegisters times in all
MaxRegisters == 2

NUM_DOCS_PER_BLOCK == 2 ^ BlockBits

\* the segment's max_doc: one more than its largest doc id
max_doc == MaxDoc + 1

\* ----------------------------------------------------------------- helpers

RECURSIVE SumSeq(_)
SumSeq(s) == IF s = <<>> THEN 0 ELSE Head(s) + SumSeq(Tail(s))

\* s[from..to) with the source's 0-based, end-exclusive slice bounds
Slice(s, from, to) == SubSeq(s, from + 1, to)

Min(a, b) == IF a <= b THEN a ELSE b

RECURSIVE SortedSeq(_)
SortedSeq(S) ==
    IF S = {} THEN <<>>
    ELSE LET m == CHOOSE x \in S : \A y \in S : x <= y
         IN <<m>> \o SortedSeq(S \ {m})

\* Option<T>: None is the empty sequence, Some(x) the one-element sequence
None == <<>>
Some(x) == <<x>>

\* ------------------------------------------------- posting list encoding

\* delta-coding of a sorted run of doc ids against the base `offset`
RECURSIVE DeltaEncode(_, _)
DeltaEncode(docs, offset) ==
    IF docs = <<>> THEN <<>>
    ELSE <<Head(docs) - offset>> \o DeltaEncode(Tail(docs), Head(docs))

\* The bytes of a posting list, as the sequence of integers they encode:
\* per full block, NUM_DOCS_PER_BLOCK doc deltas then (with frequencies)
\* NUM_DOCS_PER_BLOCK frequencies; then the tail, coded the same way.
RECURSIVE EncodePostings(_, _, _, _)
EncodePostings(docs, freqs, has_freq, offset) ==
    IF docs = <<>> THEN <<>>
    ELSE LET n == Min(Len(docs), NUM_DOCS_PER_BLOCK)
             blk == SubSeq(docs, 1, n)
         IN DeltaEncode(blk, offset)
            \o (IF has_freq THEN SubSeq(freqs, 1, n) ELSE <<>>)
            \o EncodePostings(SubSeq(docs, n + 1, Len(docs)),
                              SubSeq(freqs, n + 1, Len(freqs)),
                              has_freq, blk[n])

\* BlockDecoder.uncompress_*_sorted: prefix sums of the deltas from `offset`
RECURSIVE UncompressSorted(_, _)
UncompressSorted(deltas, offset) ==
    IF deltas = <<>> THEN <<>>
    ELSE <<offset + Head(deltas)>>
         \o UncompressSorted(Tail(deltas), offset + Head(deltas))

\* The positions stream of the segment from the term's offset on: the
\* delta at stream index k (0-based).  The first six entries are the
\* deltas [1,4 | 2,1,5 | 7] of the position-skip scenario; the stream goes
\* on past the term's own positions, as the positions file does.
PositionsData(k) == IF k < 6 THEN <<1, 4, 2, 1, 5, 7>>[k + 1] ELSE k + 2

\* --------------------------------------------------- the program's state

VARIABLES
    postings,           \* the posting list the cursor was opened on
    block_cursor,       \* SegmentPostings.block_cursor
    cur,                \* SegmentPostings.cur
    delete_bitset,      \* SegmentPostings.delete_bitset
    position_computer,  \* SegmentPostings.position_computer
    ret,                \* the last advance()/skip_next() call and its result
    pos_ret,            \* the last positions()/delta_positions() call, and
                        \* whether it was the first one on its doc
    last_doc,           \* doc() after the last successful call, -1 before it
    end_returned,       \* skip_next has returned End
    used_skip,          \* skip_next has been called
    skip_targets,       \* targets of the calls so far, while all are skip_next
    \* a BlockSegmentPostings used on its own (with postings, block_cursor, ret)
    block_hist,         \* what each advance() since opening or reset() gave
    was_reset,          \* reset() has been called
    \* ExcludeScorer
    underlying_docset,  \* ExcludeScorer.underlying_docset
    excluding_docset,   \* ExcludeScorer.excluding_docset
    excluding_state,    \* ExcludeScorer.excluding_state
    ex_ret,             \* the last advance()/skip_next() call and its result
    produced,           \* doc() after each call so far, while all are advance()
    \* TermStreamerBuilderImpl and TermStreamerImpl
    term_dictionary,    \* the dictionary: its keys, values, stream and index
    builder,            \* TermStreamerBuilderImpl, None once into_stream took it
    streamer,           \* TermStreamerImpl, None before into_stream
    lower,              \* the last ge()/gt() call, None before one
    upper,              \* the last lt()/le() call, None before one
    stream_ret,         \* the results of the advance() calls on the stream
    \* deserialize_vint
    vint_data,          \* the byte cursor handed to deserialize_vint
    vint_ret,           \* what the last deserialize_vint call gave
    \* the segment a query runs on
    segment_reader,     \* the SegmentReader: dictionary, postings, deletes
    \* TermWeight and its TermScorer (over postings, block_cursor, cur, ...)
    term_weight,        \* the TermWeight
    term_scorer,        \* what specialized_scorer returned, None before it
    \* RangeWeight and its scorer
    range_weight,       \* the RangeWeight
    range_scorer,       \* what scorer() returned, None before it
    range_hits,         \* the results of the advance() calls on the scorer
    \* AnalyzerManager
    analyzers,          \* the HashMap behind the lock: name to box
    heap,               \* the boxed analyzers, by address
    rw_lock,            \* the RwLock: its writer and its readers
    threads,            \* where each thread is in its register or get call
    registrations       \* the inserts done so far, in order

\* the variables of the SegmentPostings cursor
cursor_vars == <<cur, delete_bitset, position_computer, pos_ret, last_doc,
                 end_returned, used_skip, skip_targets>>

\* the variables of the block cursor below it
block_vars == <<postings, block_cursor, ret>>

block_history_vars == <<block_hist, was_reset>>

exclude_vars == <<underlying_docset, excluding_docset, excluding_state,
                  ex_ret, produced>>

stream_vars == <<term_dictionary, builder, streamer, lower, upper, stream_ret>>

vint_vars == <<vint_data, vint_ret>>

segment_vars == <<segment_reader>>

weight_vars == <<term_weight, term_scorer>>

range_vars == <<range_weight, range_scorer, range_hits>>

query_vars == <<segment_vars, weight_vars, range_vars>>

analyzer_vars == <<analyzers, heap, rw_lock, threads, registrations>>

vars == <<block_vars, cursor_vars, block_history_vars, exclude_vars,
          stream_vars, vint_vars, query_vars, analyzer_vars>>

\* the value of the variables of an object that was not built
NotBuilt == "not built"

NoCursor ==
    /\ cur = NotBuilt /\ delete_bitset = NotBuilt
    /\ position_computer = NotBuilt /\ pos_ret = NotBuilt
    /\ last_doc = NotBuilt /\ end_returned = NotBuilt
    /\ used_skip = NotBuilt /\ skip_targets = NotBuilt

NoBlockCursor == postings = NotBuilt /\ block_cursor = NotBuilt /\ ret = NotBuilt

NoBlockHistory == block_hist = NotBuilt /\ was_reset = NotBuilt

NoExcludeScorer ==
    /\ underlying_docset = NotBuilt /\ excluding_docset = NotBuilt
    /\ excluding_state = NotBuilt /\ ex_ret = NotBuilt /\ produced = NotBuilt

NoTermStreamer ==
    /\ term_dictionary = NotBuilt /\ builder = NotBuilt /\ streamer = NotBuilt
    /\ lower = NotBuilt /\ upper = NotBuilt /\ stream_ret = NotBuilt

NoVint == vint_data = NotBuilt /\ vint_ret = NotBuilt

NoSegment == segment_reader = NotBuilt

NoTermWeight == term_weight = NotBuilt /\ term_scorer = NotBuilt

NoRangeWeight ==
    /\ range_weight = NotBuilt /\ range_scorer = NotBuilt
    /\ range_hits = NotBuilt

NoQuery == NoSegment /\ NoTermWeight /\ NoRangeWeight

NoAnalyzerManager ==
    /\ analyzers = NotBuilt /\ heap = NotBuilt /\ rw_lock = NotBuilt
    /\ threads = NotBuilt /\ registrations = NotBuilt

\* ------------------------------------------------- BlockSegmentPostings

\* from_data with the tail block forgotten
from_data_no_tail(doc_freq, data, has_freq) ==
    [num_binpacked_blocks |-> doc_freq \div NUM_DOCS_PER_BLOCK,
     num_vint_docs |-> 0,
     doc_decoder |-> [output_array |-> <<>>, val |-> 0],
     freq_decoder |-> [output_array |-> <<>>, val |-> 1],
     has_freq |-> has_freq,
     remaining_data |-> data,
     doc_offset |-> 0,
     doc_freq |-> doc_freq]

\* BlockSegmentPostings::from_data
from_data(doc_freq, data, has_freq) ==
    LET num_binpacked_blocks == doc_freq \div NUM_DOCS_PER_BLOCK
        num_vint_docs == doc_freq - NUM_DOCS_PER_BLOCK * num_binpacked_blocks
    IN [num_binpacked_blocks |-> num_binpacked_blocks,
        num_vint_docs |-> num_vint_docs,
        doc_decoder |-> [output_array |-> <<>>, val |-> 0],
        freq_decoder |-> [output_array |-> <<>>, val |-> 1],
        has_freq |-> has_freq,
        remaining_data |-> data,
        doc_offset |-> 0,
        doc_freq |-> doc_freq]

\* BlockSegmentPostings::empty
empty_block_cursor == from_data(0, <<>>, FALSE)

doc_freq(bc) == bc.doc_freq

\* docs() giving the decoder's whole buffer instead of its decoded part
docs_whole_buffer(bc) ==
    [i \in 1..NUM_DOCS_PER_BLOCK |->
        IF i <= Len(bc.doc_decoder.output_array)
        THEN bc.doc_decoder.output_array[i]
        ELSE bc.doc_decoder.val]

docs(bc) == bc.doc_decoder.output_array

freqs(bc) == bc.freq_decoder.output_array

block_len(bc) == Len(bc.doc_decoder.output_array)

\* BlockDecoder.output(idx): past the decoded length the array still holds
\* the value it was filled with
freq(bc, idx) ==
    IF idx < Len(bc.freq_decoder.output_array)
    THEN bc.freq_decoder.output_array[idx + 1]
    ELSE bc.freq_decoder.val

\* BlockSegmentPostings::advance: [ok, bc], the result and the cursor after
block_advance(bc) ==
    IF bc.num_binpacked_blocks > 0 THEN
        LET n == NUM_DOCS_PER_BLOCK
            d == UncompressSorted(SubSeq(bc.remaining_data, 1, n), bc.doc_offset)
            rest == SubSeq(bc.remaining_data, n + 1, Len(bc.remaining_data))
        IN [ok |-> TRUE,
            bc |-> [bc EXCEPT
                !.doc_decoder.output_array = d,
                !.freq_decoder.output_array =
                    IF bc.has_freq THEN SubSeq(rest, 1, n) ELSE @,
                !.remaining_data =
                    IF bc.has_freq THEN SubSeq(rest, n + 1, Len(rest)) ELSE rest,
                !.doc_offset = d[n],
                !.num_binpacked_blocks = @ - 1]]
    ELSE IF bc.num_vint_docs > 0 THEN
        LET n == bc.num_vint_docs
            d == UncompressSorted(SubSeq(bc.remaining_data, 1, n), bc.doc_offset)
            rest == SubSeq(bc.remaining_data, n + 1, Len(bc.remaining_data))
        IN [ok |-> TRUE,
            bc |-> [bc EXCEPT
                !.doc_decoder.output_array = d,
                !.freq_decoder.output_array =
                    IF bc.has_freq THEN SubSeq(rest, 1, n) ELSE @,
                !.remaining_data = rest,
                !.num_vint_docs = 0]]
    ELSE [ok |-> FALSE, bc |-> bc]

\* the bitwise and of two naturals (the operator & on usize)
RECURSIVE BitAnd(_, _)
BitAnd(a, b) ==
    IF a = 0 \/ b = 0 THEN 0
    ELSE (a % 2) * (b % 2) + 2 * BitAnd(a \div 2, b \div 2)

\* reset with the line `self.doc_offset = 0` left out
reset_keep_offset(bc, new_doc_freq, data) ==
    [bc EXCEPT
        !.num_binpacked_blocks = new_doc_freq \div NUM_DOCS_PER_BLOCK,
        !.num_vint_docs = BitAnd(new_doc_freq, NUM_DOCS_PER_BLOCK - 1),
        !.remaining_data = data,
        !.doc_freq = new_doc_freq]

\* reset building the cursor anew, decoders included
reset_as_from_data(bc, new_doc_freq, data) ==
    from_data(new_doc_freq, data, bc.has_freq)

\* BlockSegmentPostings::reset: the decoders and has_freq are left as they are
reset(bc, new_doc_freq, data) ==
    [bc EXCEPT
        !.num_binpacked_blocks = new_doc_freq \div NUM_DOCS_PER_BLOCK,
        !.num_vint_docs = BitAnd(new_doc_freq, NUM_DOCS_PER_BLOCK - 1),
        !.remaining_data = data,
        !.doc_offset = 0,
        !.doc_freq = new_doc_freq]

\* next() giving Some(docs()) whatever advance() returned
block_next_always_some(bc) ==
    LET a == block_advance(bc)
    IN [item |-> Some(docs(a.bc)), bc |-> a.bc]

\* Streamer::next of BlockSegmentPostings: Some(docs()) after a successful
\* advance(), None otherwise; [item, bc]
block_next(bc) ==
    LET a == block_advance(bc)
    IN [item |-> IF a.ok THEN Some(docs(a.bc)) ELSE None, bc |-> a.bc]

\* ----------------------------------------------------- PositionComputer

\* PositionComputer::new; positions_stream is the stream's read offset
new_position_computer ==
    [position_to_skip |-> None,
     delta_positions |-> <<>>,
     positions |-> <<>>,
     positions_stream |-> 0]

\* PositionComputer::add_skip
add_skip(pc, num_skip) ==
    [pc EXCEPT !.position_to_skip =
        Some(IF pc.position_to_skip # None
             THEN pc.position_to_skip[1] + num_skip
             ELSE 0)]

\* cumulate with the accumulator left out: positions[i] = delta_positions[i]
cumulate_no_sum(deltas) == deltas

\* the running sums of the loop `cum += delta_positions[i]; positions[i] = cum`
cumulate(deltas) == [i \in 1..Len(deltas) |-> SumSeq(SubSeq(deltas, 1, i))]

\* delta_positions reading the stream again on every call
pc_delta_positions_always_read(pc, term_freq) ==
    LET num_skip == IF pc.position_to_skip # None
                    THEN pc.position_to_skip[1] ELSE 0
        from == pc.positions_stream + num_skip
        deltas == [i \in 1..term_freq |-> PositionsData(from + i - 1)]
        pc2 == [pc EXCEPT
            !.delta_positions = deltas,
            !.positions_stream = from + term_freq,
            !.positions = cumulate(deltas),
            !.position_to_skip = None]
    IN [pc |-> pc2, value |-> Slice(pc2.delta_positions, 0, term_freq)]

\* PositionComputer::delta_positions: [pc, value]
pc_delta_positions(pc, term_freq) ==
    IF pc.position_to_skip # None THEN
        LET num_skip == pc.position_to_skip[1]
            from == pc.positions_stream + num_skip
            deltas == [i \in 1..term_freq |-> PositionsData(from + i - 1)]
            pc2 == [pc EXCEPT
                !.delta_positions = deltas,
                !.positions_stream = from + term_freq,
                !.positions = cumulate(deltas),
                !.position_to_skip = None]
        IN [pc |-> pc2, value |-> Slice(pc2.delta_positions, 0, term_freq)]
    ELSE [pc |-> pc, value |-> Slice(pc.delta_positions, 0, term_freq)]

\* PositionComputer::positions: [pc, value]
pc_positions(pc, term_freq) ==
    LET r == pc_delta_positions(pc, term_freq)
    IN [pc |-> r.pc, value |-> Slice(r.pc.positions, 0, term_freq)]

\* ------------------------------------------------------ SegmentPostings

\* The SegmentPostings value `self` of the current state
self ==
    [block_cursor |-> block_cursor,
     cur |-> cur,
     delete_bitset |-> delete_bitset,
     position_computer |-> position_computer]

\* SegmentPostings::from_block_postings
from_block_postings(segment_block_postings, bitset, positions_stream_opt) ==
    [block_cursor |-> segment_block_postings,
     cur |-> NUM_DOCS_PER_BLOCK,
     delete_bitset |-> bitset,
     position_computer |->
        IF positions_stream_opt # None
        THEN Some(new_position_computer)
        ELSE None]

\* SegmentPostings::empty
empty == from_block_postings(empty_block_cursor, {}, None)

\* DeleteBitSet::is_deleted
is_deleted(bitset, d) == d \in bitset

\* SegmentPostings::position_add_skip; the closure is `num_skips`, which is
\* only evaluated when there is a position computer
position_add_skip_advance(sp) ==
    IF sp.position_computer # None
    THEN [sp EXCEPT !.position_computer = Some(add_skip(@[1], 1))]
    ELSE sp

position_add_skip(sp, from, to) ==
    IF sp.position_computer # None
    THEN [sp EXCEPT !.position_computer =
            Some(add_skip(@[1], SumSeq(Slice(freqs(sp.block_cursor), from, to))))]
    ELSE sp

\* SegmentPostings::doc
doc(sp) == docs(sp.block_cursor)[sp.cur + 1]

\* SegmentPostings::term_freq
term_freq(sp) == freq(sp.block_cursor, sp.cur)

\* len discounting the deleted docs
len_live(sp) == doc_freq(sp.block_cursor) - Cardinality(sp.delete_bitset)

\* SegmentPostings::len
len(sp) == doc_freq(sp.block_cursor)

\* SegmentPostings::size_hint
size_hint(sp) == len(sp)

\* advance() stopping on the next doc whether or not it is deleted
advance_keep_deleted(sp) ==
    LET cur1 == sp.cur + 1
        next_block == cur1 >= block_len(sp.block_cursor)
        adv == block_advance(sp.block_cursor)
    IN IF next_block /\ ~adv.ok
       THEN [ok |-> FALSE, sp |-> [sp EXCEPT !.cur = NUM_DOCS_PER_BLOCK]]
       ELSE [ok |-> TRUE,
             sp |-> position_add_skip_advance(
                        [sp EXCEPT
                            !.cur = IF next_block THEN 0 ELSE cur1,
                            !.block_cursor = IF next_block THEN adv.bc ELSE @])]

\* SegmentPostings::advance: [ok, sp].  The local pos_to_skip of the source
\* is summed but never read, so it has no part in the result.
RECURSIVE advance(_)
advance(sp) ==
    LET cur1 == sp.cur + 1
        next_block == cur1 >= block_len(sp.block_cursor)
        adv == block_advance(sp.block_cursor)
    IN IF next_block /\ ~adv.ok
       THEN [ok |-> FALSE, sp |-> [sp EXCEPT !.cur = NUM_DOCS_PER_BLOCK]]
       ELSE LET sp1 == [sp EXCEPT
                    !.cur = IF next_block THEN 0 ELSE cur1,
                    !.block_cursor = IF next_block THEN adv.bc ELSE @]
                sp2 == position_add_skip_advance(sp1)
            IN IF ~is_deleted(sp2.delete_bitset, doc(sp2))
               THEN [ok |-> TRUE, sp |-> sp2]
               ELSE advance(sp2)

\* SegmentPostings::skip_next, the loop skipping blocks until one that might
\* contain the target: [kind, sp] with kind "End" (no block left),
\* "OverStep" (the target is below the doc at cur) or "InBlock"
RECURSIVE skip_blocks(_, _)
skip_blocks(sp, target) ==
    LET block_docs == docs(sp.block_cursor)
        current_doc == block_docs[sp.cur + 1]
        last_doc_in_block == block_docs[Len(block_docs)]
    IN IF target > last_doc_in_block THEN
           LET sp1 == position_add_skip(sp, sp.cur, Len(freqs(sp.block_cursor)))
               adv == block_advance(sp1.block_cursor)
           IN IF ~adv.ok
              THEN [kind |-> "End", sp |-> sp1]
              ELSE skip_blocks([sp1 EXCEPT !.block_cursor = adv.bc, !.cur = 0],
                               target)
       ELSE IF target < current_doc
            THEN [kind |-> "OverStep", sp |-> sp]
            ELSE [kind |-> "InBlock", sp |-> sp]

\* SegmentPostings::skip_next, the exponential search: [start, count]
RECURSIVE exponential_search(_, _, _, _, _)
exponential_search(block_docs, target, start, count, end) ==
    LET new == start + count
    IN IF new < end /\ block_docs[new + 1] < target
       THEN exponential_search(block_docs, target, new, count * 2, end)
       ELSE [start |-> start, count |-> count]

\* the binary search with its loop never entered
binary_search_skipped(block_docs, target, start, count) == start

\* SegmentPostings::skip_next, the binary search: the final `start`
RECURSIVE binary_search(_, _, _, _)
binary_search(block_docs, target, start, count) ==
    IF count > 0 THEN
        LET step == count \div 2
            mid == start + step
        IN IF block_docs[mid + 1] < target
           THEN binary_search(block_docs, target, mid + 1, count - (step + 1))
           ELSE binary_search(block_docs, target, start, step)
    ELSE start

\* SegmentPostings::skip_next, the search inside the block: the index of
\* the doc the cursor moves to
search_in_block(block_docs, from, target) ==
    LET block_len_ == Len(block_docs)
        e == exponential_search(block_docs, target, from, 1, block_len_)
        end == Min(e.start + e.count, block_len_)
    IN binary_search(block_docs, target, e.start, end - e.start)

\* skip_in_block without the assignment `self.cur = start`
skip_in_block_keep_cur(sp, target) ==
    LET block_docs == docs(sp.block_cursor)
        start == search_in_block(block_docs, sp.cur, target)
        d == block_docs[start + 1]
        sp1 == position_add_skip(sp, sp.cur, start)
    IN IF ~is_deleted(sp1.delete_bitset, d)
       THEN [result |-> IF d = target THEN "Reached" ELSE "OverStep", sp |-> sp1]
       ELSE LET a == advance(sp1)
            IN [result |-> IF a.ok THEN "OverStep" ELSE "End", sp |-> a.sp]

\* SegmentPostings::skip_next, from the block that holds the target on
skip_in_block(sp, target) ==
    LET block_docs == docs(sp.block_cursor)
        start == search_in_block(block_docs, sp.cur, target)
        d == block_docs[start + 1]
        sp1 == [position_add_skip(sp, sp.cur, start) EXCEPT !.cur = start]
    IN IF ~is_deleted(sp1.delete_bitset, d)
       THEN [result |-> IF d = target THEN "Reached" ELSE "OverStep", sp |-> sp1]
       ELSE LET a == advance(sp1)
            IN [result |-> IF a.ok THEN "OverStep" ELSE "End", sp |-> a.sp]

\* the rest of skip_next once the cursor is on a doc
skip_from_doc(sp, target) ==
    LET b == skip_blocks(sp, target)
    IN IF b.kind = "End" THEN [result |-> "End", sp |-> b.sp]
       ELSE IF b.kind = "OverStep"
            THEN [result |-> "OverStep", sp |-> b.sp]
            ELSE skip_in_block(b.sp, target)

\* skip_next without the up-front advance() when the cursor is on a doc
skip_next_no_advance(sp, target) ==
    IF sp.cur < block_len(sp.block_cursor)
    THEN skip_from_doc(sp, target)
    ELSE LET a == advance(sp)
         IN IF ~a.ok THEN [result |-> "End", sp |-> a.sp]
            ELSE skip_from_doc(a.sp, target)

\* SegmentPostings::skip_next: [result, sp]
skip_next(sp, target) ==
    LET a == advance(sp)
    IN IF ~a.ok THEN [result |-> "End", sp |-> a.sp]
       ELSE skip_from_doc(a.sp, target)

\* positions() falling back to the empty slice, as delta_positions() does
positions_or_empty(sp) ==
    IF sp.position_computer = None
    THEN [outcome |-> "ok", value |-> <<>>, sp |-> sp]
    ELSE LET r == pc_positions(sp.position_computer[1], term_freq(sp))
         IN [outcome |-> "ok", value |-> r.value,
             sp |-> [sp EXCEPT !.position_computer = Some(r.pc)]]

\* SegmentPostings::positions: [outcome, value, sp]; without a position
\* computer the expect() panics
positions(sp) ==
    IF sp.position_computer = None
    THEN [outcome |-> "panic: Segment reader does not have positions.",
          value |-> <<>>, sp |-> sp]
    ELSE LET r == pc_positions(sp.position_computer[1], term_freq(sp))
         IN [outcome |-> "ok", value |-> r.value,
             sp |-> [sp EXCEPT !.position_computer = Some(r.pc)]]

\* delta_positions() with positions()'s expect() in place of the fallback
delta_positions_expect(sp) ==
    IF sp.position_computer = None
    THEN [outcome |-> "panic: Segment reader does not have positions.",
          value |-> <<>>, sp |-> sp]
    ELSE LET r == pc_delta_positions(sp.position_computer[1], term_freq(sp))
         IN [outcome |-> "ok", value |-> r.value,
             sp |-> [sp EXCEPT !.position_computer = Some(r.pc)]]

\* SegmentPostings::delta_positions: [outcome, value, sp]
delta_positions(sp) ==
    IF sp.position_computer = None
    THEN [outcome |-> "ok", value |-> <<>>, sp |-> sp]
    ELSE LET r == pc_delta_positions(sp.position_computer[1], term_freq(sp))
         IN [outcome |-> "ok", value |-> r.value,
             sp |-> [sp EXCEPT !.position_computer = Some(r.pc)]]

\* ------------------------------------------------------------ the inputs

\* how the posting list was indexed: SegmentPostingsOption
Options == {"NoFreq", "Freq", "FreqAndPositions"}

\* the term frequencies of a posting list of n docs under a pattern:
\* pattern 0 gives 2, 3, 1, 2, ... for MaxFreq = 3
FreqPattern(n, pattern) == [i \in 1..n |-> 1 + ((i + pattern) % MaxFreq)]

\* the patterns tried under an option
Patterns(o) == IF o = "FreqAndPositions" THEN 0..(NumFreqPatterns - 1) ELSE {0}

\* A posting list: its sorted doc ids, their term frequencies, the option
PostingLists ==
    UNION { { [docs |-> SortedSeq(D),
               freqs |-> IF o = "NoFreq" THEN [i \in 1..Cardinality(D) |-> 1]
                         ELSE FreqPattern(Cardinality(D), p),
               option |-> o] :
              D \in SUBSET (0..MaxDoc), p \in Patterns(o) } : o \in Options }

\* the cursor a segment reader opens on a posting list
open(pl, bitset) ==
    LET has_freq == pl.option # "NoFreq"
        data == EncodePostings(pl.docs, pl.freqs, has_freq, 0)
    IN from_block_postings(
           from_data(Len(pl.docs), data, has_freq),
           bitset,
           IF pl.option = "FreqAndPositions" THEN Some(0) ELSE None)

no_call == [op |-> "new", result |-> "none", target |-> 0]
no_read == [op |-> "none", outcome |-> "ok", value |-> <<>>, again |-> FALSE]

Init ==
    \E pl \in PostingLists :
    \E bitset \in SUBSET { pl.docs[i] : i \in 1..Len(pl.docs) } :
        LET sp == open(pl, bitset)
        IN /\ postings = pl
           /\ block_cursor = sp.block_cursor
           /\ cur = sp.cur
           /\ delete_bitset = sp.delete_bitset
           /\ position_computer = sp.position_computer
           /\ ret = no_call
           /\ pos_ret = no_read
           /\ last_doc = -1
           /\ end_returned = FALSE
           /\ used_skip = FALSE
           /\ skip_targets = <<>>
           /\ NoBlockHistory /\ NoExcludeScorer /\ NoTermStreamer /\ NoVint
           /\ NoQuery /\ NoAnalyzerManager

\* ----------------------------------------------------------- the actions

Panicked == pos_ret.outcome # "ok"

Succeeded(r) == r.result \in {"true", "Reached", "OverStep"}

\* the cursor is on a doc: the last advance()/skip_next() succeeded
OnDoc == Succeeded(ret)

Moved(sp, call) ==
    /\ block_cursor' = sp.block_cursor
    /\ cur' = sp.cur
    /\ position_computer' = sp.position_computer
    /\ ret' = call
    /\ pos_ret' = no_read
    /\ last_doc' = IF Succeeded(call) THEN doc(sp) ELSE last_doc
    /\ end_returned' = (end_returned \/ (call.op = "skip_next" /\ call.result = "End"))
    /\ UNCHANGED <<postings, delete_bitset>>
    /\ UNCHANGED <<block_history_vars, exclude_vars, stream_vars, vint_vars,
                   query_vars, analyzer_vars>>

\* a call of advance()
Advance ==
    /\ ~Panicked
    /\ LET a == advance(self)
       IN Moved(a.sp, [op |-> "advance",
                       result |-> IF a.ok THEN "true" ELSE "false",
                       target |-> 0])
    /\ used_skip' = used_skip
    /\ skip_targets' = <<-1>>

\* a call of skip_next(target)
SkipNext ==
    /\ ~Panicked
    /\ \E target \in 0..max_doc :
        /\ LET s == skip_next(self, target)
           IN Moved(s.sp, [op |-> "skip_next", result |-> s.result,
                           target |-> target])
        /\ skip_targets' =
              IF Len(skip_targets) < 2 /\ skip_targets # <<-1>>
              THEN Append(skip_targets, target)
              ELSE <<-1>>
    /\ used_skip' = TRUE

\* a call of positions() on the current doc
Positions ==
    /\ ~Panicked
    /\ OnDoc
    /\ LET r == positions(self)
       IN /\ position_computer' = r.sp.position_computer
          /\ pos_ret' = [op |-> "positions", outcome |-> r.outcome,
                         value |-> r.value, again |-> pos_ret.op # "none"]
    /\ UNCHANGED <<postings, block_cursor, cur, delete_bitset, ret, last_doc,
                   end_returned, used_skip, skip_targets>>
    /\ UNCHANGED <<block_history_vars, exclude_vars, stream_vars, vint_vars,
                   query_vars, analyzer_vars>>

\* a call of delta_positions() on the current doc
DeltaPositions ==
    /\ ~Panicked
    /\ OnDoc
    /\ LET r == delta_positions(self)
       IN /\ position_computer' = r.sp.position_computer
          /\ pos_ret' = [op |-> "delta_positions", outcome |-> r.outcome,
                         value |-> r.value, again |-> pos_ret.op # "none"]
    /\ UNCHANGED <<postings, block_cursor, cur, delete_bitset, ret, last_doc,
                   end_returned, used_skip, skip_targets>>
    /\ UNCHANGED <<block_history_vars, exclude_vars, stream_vars, vint_vars,
                   query_vars, analyzer_vars>>

Next == Advance \/ SkipNext \/ Positions \/ DeltaPositions

Spec == Init /\ [][Next]_vars

\* ------------------------------------------------------------ the claims

\* a step that is a call of advance() or skip_next()
MoveStep == pos_ret'.op = "none"

\* the index in the posting list of the doc the cursor is on
DocIndex == CHOOSE i \in 1..Len(postings.docs) : postings.docs[i] = doc(self)

\* the number of docs in the blocks decoded so far
DocsDecoded ==
    block_cursor.doc_freq
    - (block_cursor.num_binpacked_blocks * NUM_DOCS_PER_BLOCK
       + block_cursor.num_vint_docs)

\* C1: the values of doc() observed after successful advance()/skip_next()
\* calls, mixed in any order with any targets, are strictly increasing.
C1_DocsStrictlyIncreasing ==
    [][(MoveStep /\ Succeeded(ret') /\ last_doc # -1) => doc(self)' > last_doc]_vars

\* C1 witness: a skip_next succeeded after an earlier successful call of
\* another kind, and stopped in a later block than the first.
C1_Witness ==
    /\ ret.op = "skip_next" /\ Succeeded(ret)
    /\ skip_targets = <<-1>>
    /\ DocsDecoded > NUM_DOCS_PER_BLOCK
    /\ doc(self) > postings.docs[1]

\* C2: after every successful advance()/skip_next(), doc() is not marked in
\* the delete bitset.
C2_DeletedNeverSurface ==
    Succeeded(ret) => ~is_deleted(delete_bitset, doc(self))

\* C3: skip_next(t) = Reached leaves doc() = t, and skip_next(t) = OverStep
\* leaves doc() > t.
C3_SkipResultMatchesDoc ==
    ret.op = "skip_next" =>
        /\ ret.result = "Reached" => doc(self) = ret.target
        /\ ret.result = "OverStep" => doc(self) > ret.target

\* C3 witness: skip_next reached its target past a block boundary, with a
\* deleted doc in the list.
C3_Witness ==
    /\ ret.op = "skip_next" /\ ret.result = "Reached"
    /\ DocsDecoded > NUM_DOCS_PER_BLOCK
    /\ delete_bitset # {}
    /\ doc(self) = ret.target

\* C4: once skip_next has returned End, every later advance() returns false
\* and every later skip_next returns End.
C4_EndIsTerminal ==
    end_returned => ret.result \in {"false", "End"}

\* the posting list with all docs < t removed from the underlying sequence
Truncated(pl, t) ==
    LET keep == SortedSeq({ i \in 1..Len(pl.docs) : pl.docs[i] >= t })
    IN [docs |-> [k \in 1..Len(keep) |-> pl.docs[keep[k]]],
        freqs |-> [k \in 1..Len(keep) |-> pl.freqs[keep[k]]],
        option |-> pl.option]

\* result kind and current doc of a skip_next outcome [result, sp]
Landing(r) ==
    [result |-> r.result, doc |-> IF r.result = "End" THEN -1 ELSE doc(r.sp)]

\* skip_next(t) on a fresh cursor over the posting list without its docs < t
FreshOnTruncated(t) ==
    Landing(skip_next(open(Truncated(postings, t), delete_bitset), t))

\* the history is exactly skip_next(t1); skip_next(t2) with t1 < t2 <= max_doc
SkippedTwice ==
    /\ Len(skip_targets) = 2
    /\ skip_targets[1] < skip_targets[2]
    /\ skip_targets[2] <= max_doc

FirstSkip == Landing(skip_next(open(postings, delete_bitset), skip_targets[1]))

OwnPositions(i) ==
    LET offset == SumSeq(SubSeq(postings.freqs, 1, i - 1))
    IN cumulate([j \in 1..postings.freqs[i] |-> PositionsData(offset + j - 1)])

\* C6: after any number of advance() calls, with positions() read on any
\* subset of the visited docs, positions() returns the prefix sums of the
\* current doc's own position deltas.
C6_PositionsAfterAdvance ==
    (pos_ret.op = "positions" /\ pos_ret.outcome = "ok" /\ ~used_skip)
        => pos_ret.value = OwnPositions(DocIndex)

\* C7: on a doc of a posting list opened with positions, positions() has
\* length term_freq() and positions()[i] is the sum of
\* delta_positions()[0..=i].
C7_PositionsArePrefixSums ==
    (OnDoc /\ position_computer # None) =>
        LET p == positions(self)
            d == delta_positions(p.sp)
        IN /\ p.outcome = "ok" /\ d.outcome = "ok"
           /\ Len(p.value) = term_freq(self)
           /\ \A i \in 1..Len(p.value) :
                p.value[i] = SumSeq(SubSeq(d.value, 1, i))

\* C7 witness: positions() was read on a doc with several positions, reached
\* by skip_next after docs whose positions were not read.
C7_Witness ==
    /\ OnDoc /\ position_computer # None
    /\ pos_ret.op = "positions"
    /\ Len(pos_ret.value) = term_freq(self) /\ term_freq(self) >= 2
    /\ used_skip /\ DocIndex >= 3
    /\ position_computer[1].positions_stream > term_freq(self)

\* C8: on a cursor opened without positions, positions() and
\* delta_positions() both return empty slices.
C8_BothEmptyWithoutPositions ==
    (position_computer = None /\ pos_ret.op \in {"positions", "delta_positions"})
        => (pos_ret.outcome = "ok" /\ pos_ret.value = <<>>)

\* C8 amended: on a cursor opened without positions, delta_positions()
\* returns an empty slice, and positions() returns no slice.
C8_DeltaEmptyWithoutPositions ==
    position_computer = None =>
        /\ pos_ret.op = "delta_positions" =>
              (pos_ret.outcome = "ok" /\ pos_ret.value = <<>>)
        /\ pos_ret.op = "positions" => pos_ret.outcome # "ok"

\* C8 witness: delta_positions() was called on a doc of a posting list
\* indexed with frequencies but opened without positions.
C8_Witness ==
    /\ position_computer = None
    /\ pos_ret.op = "delta_positions"
    /\ postings.option = "Freq" /\ term_freq(self) >= 2

\* C9: positions() on a cursor opened without positions fails with the
\* message 'Segment reader does not have positions.' and returns nothing.
C9_PositionsPanicsWithoutPositions ==
    (position_computer = None /\ pos_ret.op = "positions") =>
        /\ pos_ret.outcome = "panic: Segment reader does not have positions."
        /\ Panicked
        /\ ~ENABLED Next

\* C9 witness: positions() was called on a doc of a cursor without positions.
C9_Witness ==
    /\ position_computer = None
    /\ pos_ret.op = "positions"
    /\ OnDoc

\* C10: len() and size_hint() return the posting list's stored doc_freq: the
\* number of docs of the list, deleted ones included, whatever calls were
\* made; an empty SegmentPostings reports 0.
C10_LenIsDocFreq ==
    /\ len(self) = Len(postings.docs)
    /\ size_hint(self) = Len(postings.docs)
    /\ self = empty => len(self) = 0

\* C10 witness: the cursor has skipped over deleted docs and decoded every
\* block.
C10_Witness ==
    /\ ret.op = "skip_next" /\ Succeeded(ret)
    /\ \E d \in delete_bitset : d < doc(self)
    /\ block_cursor.num_binpacked_blocks = 0 /\ block_cursor.num_vint_docs = 0
    /\ len(self) >= 3

\* ============================================ BlockSegmentPostings alone

\* the data of a posting list as the segment's postings file holds it
encoded(pl) ==
    EncodePostings(pl.docs, pl.freqs, pl.option # "NoFreq", 0)

\* a block cursor opened on a posting list, not wrapped in a SegmentPostings
InitBlock ==
    \E pl \in PostingLists :
        /\ postings = pl
        /\ block_cursor = from_data(Len(pl.docs), encoded(pl),
                                    pl.option # "NoFreq")
        /\ ret = no_call
        /\ block_hist = <<>>
        /\ was_reset = FALSE
        /\ NoCursor /\ NoExcludeScorer /\ NoTermStreamer /\ NoVint
        /\ NoQuery /\ NoAnalyzerManager

\* the last two calls were both advance() calls that returned false
FailedTwice ==
    /\ Len(block_hist) >= 2
    /\ block_hist[Len(block_hist)] = None
    /\ block_hist[Len(block_hist) - 1] = None

\* a call of next(), that is of advance() and then of docs()
BlockAdvance ==
    /\ ~FailedTwice
    /\ LET n == block_next(block_cursor)
       IN /\ block_cursor' = n.bc
          /\ ret' = [op |-> "advance",
                     result |-> IF n.item # None THEN "true" ELSE "false",
                     target |-> 0]
          /\ block_hist' = Append(block_hist, n.item)
    /\ UNCHANGED <<postings, was_reset>>
    /\ UNCHANGED <<cursor_vars, exclude_vars, stream_vars, vint_vars,
                   query_vars, analyzer_vars>>

\* a call of reset() onto another posting list of the same field
BlockReset ==
    /\ \E pl \in PostingLists :
        /\ pl.option = postings.option
        /\ postings' = pl
        /\ block_cursor' = reset(block_cursor, Len(pl.docs), encoded(pl))
    /\ ret' = [op |-> "reset", result |-> "none", target |-> 0]
    /\ block_hist' = <<>>
    /\ was_reset' = TRUE
    /\ UNCHANGED <<cursor_vars, exclude_vars, stream_vars, vint_vars,
                   query_vars, analyzer_vars>>

NextBlock == BlockAdvance \/ BlockReset

SpecBlock == InitBlock /\ [][NextBlock]_vars

\* the number of full blocks and of blocks of a posting list of l docs
NumFullBlocks(l) == l \div NUM_DOCS_PER_BLOCK
NumBlocks(l) == (l + NUM_DOCS_PER_BLOCK - 1) \div NUM_DOCS_PER_BLOCK

\* the i-th block of a posting list
BlockOf(pl, i) ==
    SubSeq(pl.docs, (i - 1) * NUM_DOCS_PER_BLOCK + 1,
           Min(i * NUM_DOCS_PER_BLOCK, Len(pl.docs)))

\* the last call was an advance() that returned true
BlockAdvanced == ret.op = "advance" /\ ret.result = "true"

\* C11: on a newly opened block cursor docs() is empty before the first
\* advance(); after an advance() that lands on a full block docs() has
\* exactly NUM_DOCS_PER_BLOCK entries, and after one that lands on the tail
\* block it has between 1 and NUM_DOCS_PER_BLOCK - 1 entries.
C11_BlockLengths ==
    /\ (block_hist = <<>> /\ ~was_reset) => docs(block_cursor) = <<>>
    /\ (BlockAdvanced /\ Len(block_hist) <= NumFullBlocks(Len(postings.docs)))
          => Len(docs(block_cursor)) = NUM_DOCS_PER_BLOCK
    /\ (BlockAdvanced /\ Len(block_hist) > NumFullBlocks(Len(postings.docs)))
          => Len(docs(block_cursor)) \in 1..(NUM_DOCS_PER_BLOCK - 1)

\* C11 witness: a newly opened cursor went over a full block and then
\* landed on the tail block.
C11_Witness ==
    /\ ~was_reset /\ BlockAdvanced
    /\ Len(block_hist) = NumFullBlocks(Len(postings.docs)) + 1
    /\ Len(block_hist) >= 2
    /\ Len(docs(block_cursor)) < NUM_DOCS_PER_BLOCK

\* C12: over a posting list of l docs advance() returns true on each of the
\* l / NUM_DOCS_PER_BLOCK full blocks, once more on the tail iff there is
\* one, then false; the blocks read are the posting list cut in blocks, so
\* their concatenation is the whole list in ascending order.
C12_BlocksAreThePostingList ==
    \A i \in 1..Len(block_hist) :
        IF i <= NumBlocks(Len(postings.docs))
        THEN block_hist[i] = Some(BlockOf(postings, i))
        ELSE block_hist[i] = None

\* C12 witness: a list of at least two full blocks and a tail was read to
\* its end, and the advance() after the tail returned false.
C12_Witness ==
    /\ ~was_reset
    /\ NumFullBlocks(Len(postings.docs)) >= 2
    /\ NumBlocks(Len(postings.docs)) > NumFullBlocks(Len(postings.docs))
    /\ Len(block_hist) = NumBlocks(Len(postings.docs)) + 1
    /\ ret.result = "false"

\* what n calls of next() give on a cursor
RECURSIVE NextItems(_, _)
NextItems(bc, n) ==
    IF n = 0 THEN <<>>
    ELSE LET r == block_next(bc) IN <<r.item>> \o NextItems(r.bc, n - 1)

\* a freshly constructed cursor over a posting list
Fresh(pl) == from_data(Len(pl.docs), encoded(pl), pl.option # "NoFreq")

\* C13: after reset(), whatever was consumed of the previous posting list,
\* the advance() results and the blocks they deliver are those of a freshly
\* constructed cursor over the new posting list.
C13_ResetAsFresh ==
    was_reset => block_hist = NextItems(Fresh(postings), Len(block_hist))

\* C13 witness: the cursor was reset past the first block of a list, and
\* then read the new list, a full block and a tail, to its end.
C13_Witness ==
    /\ was_reset
    /\ block_cursor.doc_decoder.output_array # <<>>
    /\ NumFullBlocks(Len(postings.docs)) >= 1
    /\ NumBlocks(Len(postings.docs)) > NumFullBlocks(Len(postings.docs))
    /\ Len(block_hist) = NumBlocks(Len(postings.docs)) + 1

\* ========================================================= ExcludeScorer

\* VecPostings, the docset of the tests: a vector of doc ids and a cursor
\* that starts one before the first
vec_postings(doc_ids) == [doc_ids |-> doc_ids, cursor |-> -1]

\* VecPostings::advance: [ok, ds]
vec_advance(v) ==
    [ok |-> v.cursor + 1 < Len(v.doc_ids), ds |-> [v EXCEPT !.cursor = @ + 1]]

vec_doc(v) == v.doc_ids[v.cursor + 1]

vec_size_hint(v) == Len(v.doc_ids)

\* the loop of DocSet::skip_next: advance while doc() is below the target
RECURSIVE vec_seek(_, _)
vec_seek(v, target) ==
    IF vec_doc(v) < target
    THEN LET a == vec_advance(v)
         IN IF a.ok THEN vec_seek(a.ds, target)
            ELSE [result |-> "End", ds |-> a.ds]
    ELSE [result |-> IF vec_doc(v) = target THEN "Reached" ELSE "OverStep",
          ds |-> v]

\* DocSet::skip_next as VecPostings has it: advance first, then seek
vec_skip_next(v, target) ==
    LET a == vec_advance(v)
    IN IF a.ok THEN vec_seek(a.ds, target)
       ELSE [result |-> "End", ds |-> a.ds]

\* enum State
ExcludeOne(d) == <<"ExcludeOne", d>>
Finished == <<"Finished">>

\* the ExcludeScorer the variables hold
scorer ==
    [underlying_docset |-> underlying_docset,
     excluding_docset |-> excluding_docset,
     excluding_state |-> excluding_state]

\* new advancing the underlying docset as well as the excluding one
exclude_new_advance_both(underlying, excluding) ==
    LET a == vec_advance(excluding)
        u == vec_advance(underlying)
    IN [underlying_docset |-> u.ds,
        excluding_docset |-> a.ds,
        excluding_state |-> IF a.ok THEN ExcludeOne(vec_doc(a.ds)) ELSE Finished]

\* ExcludeScorer::new
exclude_new(underlying, excluding) ==
    LET a == vec_advance(excluding)
    IN [underlying_docset |-> underlying,
        excluding_docset |-> a.ds,
        excluding_state |-> IF a.ok THEN ExcludeOne(vec_doc(a.ds)) ELSE Finished]

\* accept with the arm `SkipResult::Reached => false` turned to true
accept_reached(es) ==
    LET d == vec_doc(es.underlying_docset)
    IN IF es.excluding_state = Finished THEN [ok |-> TRUE, es |-> es]
       ELSE LET excluded_doc == es.excluding_state[2]
            IN IF d = excluded_doc THEN [ok |-> FALSE, es |-> es]
               ELSE IF excluded_doc > d THEN [ok |-> TRUE, es |-> es]
               ELSE LET k == vec_skip_next(es.excluding_docset, d)
                        moved == [es EXCEPT !.excluding_docset = k.ds]
                    IN IF k.result = "OverStep"
                       THEN [ok |-> TRUE,
                             es |-> [moved EXCEPT !.excluding_state =
                                        ExcludeOne(vec_doc(k.ds))]]
                       ELSE IF k.result = "End"
                       THEN [ok |-> TRUE,
                             es |-> [moved EXCEPT !.excluding_state = Finished]]
                       ELSE [ok |-> TRUE, es |-> moved]

\* ExcludeScorer::accept: [ok, es]
accept(es) ==
    LET d == vec_doc(es.underlying_docset)
    IN IF es.excluding_state = Finished THEN [ok |-> TRUE, es |-> es]
       ELSE LET excluded_doc == es.excluding_state[2]
            IN IF d = excluded_doc THEN [ok |-> FALSE, es |-> es]
               ELSE IF excluded_doc > d THEN [ok |-> TRUE, es |-> es]
               ELSE LET k == vec_skip_next(es.excluding_docset, d)
                        moved == [es EXCEPT !.excluding_docset = k.ds]
                    IN IF k.result = "OverStep"
                       THEN [ok |-> TRUE,
                             es |-> [moved EXCEPT !.excluding_state =
                                        ExcludeOne(vec_doc(k.ds))]]
                       ELSE IF k.result = "End"
                       THEN [ok |-> TRUE,
                             es |-> [moved EXCEPT !.excluding_state = Finished]]
                       ELSE [ok |-> FALSE, es |-> moved]

\* ExcludeScorer::advance: [ok, es]
RECURSIVE exclude_advance(_)
exclude_advance(es) ==
    LET a == vec_advance(es.underlying_docset)
        moved == [es EXCEPT !.underlying_docset = a.ds]
    IN IF ~a.ok THEN [ok |-> FALSE, es |-> moved]
       ELSE LET c == accept(moved)
            IN IF c.ok THEN [ok |-> TRUE, es |-> c.es]
               ELSE exclude_advance(c.es)

\* skip_next giving the underlying's result also when its doc was rejected
exclude_skip_next_same_result(es, target) ==
    LET k == vec_skip_next(es.underlying_docset, target)
        moved == [es EXCEPT !.underlying_docset = k.ds]
    IN IF k.result = "End" THEN [result |-> "End", es |-> moved]
       ELSE LET c == accept(moved)
            IN IF c.ok THEN [result |-> k.result, es |-> c.es]
               ELSE LET a == exclude_advance(c.es)
                    IN [result |-> IF a.ok THEN k.result ELSE "End",
                        es |-> a.es]

\* ExcludeScorer::skip_next: [result, es]
exclude_skip_next(es, target) ==
    LET k == vec_skip_next(es.underlying_docset, target)
        moved == [es EXCEPT !.underlying_docset = k.ds]
    IN IF k.result = "End" THEN [result |-> "End", es |-> moved]
       ELSE LET c == accept(moved)
            IN IF c.ok THEN [result |-> k.result, es |-> c.es]
               ELSE LET a == exclude_advance(c.es)
                    IN [result |-> IF a.ok THEN "OverStep" ELSE "End",
                        es |-> a.es]

\* ExcludeScorer::doc
exclude_doc(es) == vec_doc(es.underlying_docset)

\* size_hint with the docs of the excluding docset taken off
exclude_size_hint_discounted(es) ==
    vec_size_hint(es.underlying_docset) - vec_size_hint(es.excluding_docset)

\* ExcludeScorer::size_hint
exclude_size_hint(es) == vec_size_hint(es.underlying_docset)

\* the docsets: every ascending vector of doc ids of the segment
DocIdVectors == { SortedSeq(D) : D \in SUBSET (0..MaxDoc) }

\* `produced` once a call other than advance() was made
NotTracked == <<-1>>

InitExclude ==
    \E u \in DocIdVectors, e \in DocIdVectors :
        LET es == exclude_new(vec_postings(u), vec_postings(e))
        IN /\ underlying_docset = es.underlying_docset
           /\ excluding_docset = es.excluding_docset
           /\ excluding_state = es.excluding_state
           /\ ex_ret = [op |-> "new", result |-> "none", target |-> 0,
                        first |-> FALSE]
           /\ produced = <<>>
           /\ NoCursor /\ NoBlockCursor /\ NoBlockHistory
           /\ NoTermStreamer /\ NoVint
           /\ NoQuery /\ NoAnalyzerManager

\* the scorer has reported the end of its docs
ExcludeEnded == ex_ret.result \in {"false", "End"}

ExcludeMoved(es, call) ==
    /\ underlying_docset' = es.underlying_docset
    /\ excluding_docset' = es.excluding_docset
    /\ excluding_state' = es.excluding_state
    /\ ex_ret' = call
    /\ UNCHANGED <<cursor_vars, block_vars, block_history_vars, stream_vars,
                   vint_vars, query_vars, analyzer_vars>>

\* a call of advance()
ExcludeAdvance ==
    /\ ~ExcludeEnded
    /\ LET a == exclude_advance(scorer)
       IN /\ ExcludeMoved(a.es, [op |-> "advance",
                                 result |-> IF a.ok THEN "true" ELSE "false",
                                 target |-> 0,
                                 first |-> ex_ret.op = "new"])
          /\ produced' = IF produced = NotTracked THEN NotTracked
                         ELSE IF a.ok THEN Append(produced, exclude_doc(a.es))
                         ELSE produced

\* a call of skip_next(target)
ExcludeSkipNext ==
    /\ ~ExcludeEnded
    /\ \E target \in 0..max_doc :
        LET k == exclude_skip_next(scorer, target)
        IN ExcludeMoved(k.es, [op |-> "skip_next", result |-> k.result,
                               target |-> target,
                               first |-> ex_ret.op = "new"])
    /\ produced' = NotTracked

NextExclude == ExcludeAdvance \/ ExcludeSkipNext

SpecExclude == InitExclude /\ [][NextExclude]_vars

\* the docs of a docset, and the docs the scorer is to produce
DocsOf(v) == { v.doc_ids[i] : i \in 1..Len(v.doc_ids) }
Kept == DocsOf(underlying_docset) \ DocsOf(excluding_docset)

\* C14: advance() called until it returns false yields exactly the docs of
\* the underlying docset that are not in the excluding docset, ascending.
C14_ProducesDifference ==
    produced # NotTracked =>
        /\ Len(produced) <= Cardinality(Kept)
        /\ produced = SubSeq(SortedSeq(Kept), 1, Len(produced))
        /\ ex_ret.result = "false" => produced = SortedSeq(Kept)

\* C14 witness: the iteration ended having produced two docs, rejected a doc
\* of both docsets, and passed a doc of the excluding docset alone.
C14_Witness ==
    /\ produced # NotTracked /\ ex_ret.result = "false"
    /\ Len(produced) >= 2
    /\ \E d \in DocsOf(underlying_docset) \cap DocsOf(excluding_docset) :
           d > produced[1]
    /\ \E d \in DocsOf(excluding_docset) \ DocsOf(underlying_docset) :
           d < produced[Len(produced)]

\* the first call on the scorer was the skip_next just made
FirstExcludeSkip == ex_ret.op = "skip_next" /\ ex_ret.first

\* C15: on a fresh scorer skip_next(t) returns Reached iff t is a doc to
\* produce; otherwise OverStep on the smallest doc to produce above t if
\* there is one, and End if there is none.
C15_SkipNextAsReference ==
    FirstExcludeSkip =>
        LET t == ex_ret.target
            above == { d \in Kept : d > t }
        IN IF t \in Kept THEN ex_ret.result = "Reached" /\ exclude_doc(scorer) = t
           ELSE IF above # {}
           THEN /\ ex_ret.result = "OverStep"
                /\ exclude_doc(scorer) = CHOOSE d \in above : \A o \in above : d <= o
           ELSE ex_ret.result = "End"

\* C15 witness: the underlying docset reached the target, the target is
\* excluded, and the scorer reported OverStep on a later doc.
C15_Witness ==
    /\ FirstExcludeSkip
    /\ ex_ret.target \in DocsOf(underlying_docset) \cap DocsOf(excluding_docset)
    /\ ex_ret.result = "OverStep"
    /\ exclude_doc(scorer) > ex_ret.target + 1

\* C16: size_hint() is the underlying docset's size hint, the number of its
\* docs, in every excluding state.
C16_SizeHintIsUnderlying ==
    exclude_size_hint(scorer) = Len(underlying_docset.doc_ids)

\* C16 witness: docs were excluded and the excluding state is Finished.
C16_Witness ==
    /\ excluding_state = Finished
    /\ DocsOf(underlying_docset) \cap DocsOf(excluding_docset) # {}
    /\ ex_ret.result = "true"
    /\ exclude_size_hint(scorer) > Cardinality(Kept)

\* ====================================================== deserialize_vint

\* the loop of deserialize_vint at byte i: [outcome, value, rest]; reading
\* past the end of the slice panics
RECURSIVE vint_loop(_, _, _, _)
vint_loop(data, i, res, shift) ==
    IF i >= Len(data)
    THEN [outcome |-> "panic", value |-> 0, rest |-> data]
    ELSE LET b == data[i + 1]
             sum == res + (b % 128) * (2 ^ shift)
         IN IF BitAnd(b, 128) # 0
            THEN [outcome |-> "ok", value |-> sum,
                  rest |-> SubSeq(data, i + 2, Len(data))]
            ELSE vint_loop(data, i + 1, sum, shift + 7)

\* deserialize_vint leaving the cursor where it was
deserialize_vint_cursor_kept(data) ==
    [vint_loop(data, 0, 0, 0) EXCEPT !.rest = data]

\* deserialize_vint
deserialize_vint(data) == vint_loop(data, 0, 0, 0)

\* the byte values tried: both values of the top bit, with the low seven
\* bits all clear, one set, all set
VintBytes == {0, 1, 127, 128, 129, 255}

InitVint ==
    /\ vint_data \in UNION { [1..n -> VintBytes] : n \in 0..MaxVintLen }
    /\ vint_ret = [outcome |-> "none", value |-> 0, input |-> <<>>]
    /\ NoCursor /\ NoBlockCursor /\ NoBlockHistory
    /\ NoExcludeScorer /\ NoTermStreamer
    /\ NoQuery /\ NoAnalyzerManager

\* a call of deserialize_vint(&mut data)
DeserializeVint ==
    /\ vint_ret.outcome # "panic"
    /\ vint_data # <<>> \/ vint_ret.outcome = "none"
    /\ LET r == deserialize_vint(vint_data)
       IN /\ vint_data' = r.rest
          /\ vint_ret' = [outcome |-> r.outcome, value |-> r.value,
                          input |-> vint_data]
    /\ UNCHANGED <<cursor_vars, block_vars, block_history_vars, exclude_vars,
                   stream_vars, query_vars, analyzer_vars>>

NextVint == DeserializeVint

SpecVint == InitVint /\ [][NextVint]_vars

\* the bytes the last call consumed
Consumed == SubSeq(vint_ret.input, 1, Len(vint_ret.input) - Len(vint_data))

\* the top bit of a byte is set
TopBit(b) == b >= 128

\* the integer whose 7-bit chunks, lowest first, are the low bits of bytes
RECURSIVE Chunks(_)
Chunks(bytes) ==
    IF bytes = <<>> THEN 0
    ELSE (bytes[1] % 128) + 128 * Chunks(Tail(bytes))

\* what the call read is its input cut after the consumed bytes
CursorAdvanced == vint_ret.input = Consumed \o vint_data

\* C20 as stated: the decoded integer is made of the low seven bits of the
\* bytes consumed, lowest chunk first; the byte with the top bit clear ends
\* it; the cursor is past exactly the bytes consumed.
C20_VintEndsOnClearTopBit ==
    vint_ret.outcome = "ok" =>
        /\ vint_ret.value = Chunks(Consumed)
        /\ CursorAdvanced
        /\ Consumed # <<>>
        /\ ~TopBit(Consumed[Len(Consumed)])
        /\ \A i \in 1..(Len(Consumed) - 1) : TopBit(Consumed[i])

\* C20 amended: the decoded integer is made of the low seven bits of the
\* bytes consumed, lowest chunk first; the first byte with the top bit set
\* ends it, and without such a byte the read runs off the slice; the cursor
\* is past exactly the bytes consumed.
C20_VintEndsOnSetTopBit ==
    /\ vint_ret.outcome = "ok" =>
        /\ vint_ret.value = Chunks(Consumed)
        /\ CursorAdvanced
        /\ Consumed # <<>>
        /\ TopBit(Consumed[Len(Consumed)])
        /\ \A i \in 1..(Len(Consumed) - 1) : ~TopBit(Consumed[i])
    /\ vint_ret.outcome = "panic" =>
        \A i \in 1..Len(vint_ret.input) : ~TopBit(vint_ret.input[i])

\* C20 witness: an integer of several bytes was decoded, with bits in every
\* chunk, and a byte was left in the slice.
C20_Witness ==
    /\ vint_ret.outcome = "ok"
    /\ Len(Consumed) >= 2
    /\ \A i \in 1..Len(Consumed) : Consumed[i] % 128 # 0
    /\ vint_ret.value > 128
    /\ vint_data # <<>>

\* ================================================= the term dictionary

\* the bytes keys are made of
KeyBytes == {97, 98}

\* the keys of the terms: the non-empty strings of one or two bytes
Keys == UNION { [1..n -> KeyBytes] : n \in {1, 2} }

\* a < b and a <= b on byte slices: the lexicographic order
RECURSIVE slice_lt(_, _)
slice_lt(a, b) ==
    IF b = <<>> THEN FALSE
    ELSE IF a = <<>> THEN TRUE
    ELSE IF a[1] # b[1] THEN a[1] < b[1]
    ELSE slice_lt(Tail(a), Tail(b))

slice_le(a, b) == a = b \/ slice_lt(a, b)

\* a set of keys in ascending order
RECURSIVE SortedKeys(_)
SortedKeys(K) ==
    IF K = {} THEN <<>>
    ELSE LET k == CHOOSE x \in K : \A y \in K : slice_le(x, y)
         IN <<k>> \o SortedKeys(K \ {k})

\* TermInfo: the record locating a posting list
TermInfo_default == [doc_freq |-> 0, postings_offset |-> 0]

\* the TermInfo of the i-th term of a dictionary
TermInfoOf(i) == [doc_freq |-> i, postings_offset |-> 16 * i]

\* the serialized TermInfo: its fields, one after the other
serialize_term_info(ti) == <<ti.doc_freq, ti.postings_offset>>

\* TermInfo::deserialize: [value, rest]
deserialize_term_info(data) ==
    [value |-> [doc_freq |-> data[1], postings_offset |-> data[2]],
     rest |-> SubSeq(data, 3, Len(data))]

\* the writer of the integers deserialize_vint reads: 7-bit chunks, lowest
\* first, the top bit set on the last byte
RECURSIVE serialize_vint(_)
serialize_vint(v) ==
    IF v < 128 THEN <<v + 128>>
    ELSE <<v % 128>> \o serialize_vint(v \div 128)

\* the length of the longest common prefix of two keys
RECURSIVE common_prefix_len(_, _)
common_prefix_len(a, b) ==
    IF a = <<>> \/ b = <<>> \/ a[1] # b[1] THEN 0
    ELSE 1 + common_prefix_len(Tail(a), Tail(b))

\* an entry on the wire: (common_prefix_len, suffix_len, suffix, TermInfo)
serialize_entry(prev_key, key, ti) ==
    LET common == common_prefix_len(prev_key, key)
    IN serialize_vint(common) \o serialize_vint(Len(key) - common)
       \o SubSeq(key, common + 1, Len(key)) \o serialize_term_info(ti)

\* the stream of the first n entries of a dictionary
RECURSIVE stream_of(_, _)
stream_of(keys, n) ==
    IF n = 0 THEN <<>>
    ELSE stream_of(keys, n - 1)
         \o serialize_entry(IF n = 1 THEN <<>> ELSE keys[n - 1], keys[n],
                            TermInfoOf(n))

\* the dictionary written for a set of keys: before every IndexInterval-th
\* entry the index maps the key written last to the offset reached
TermDictionaryImpl(K) ==
    LET keys == SortedKeys(K)
    IN [keys |-> keys,
        stream_data |-> stream_of(keys, Len(keys)),
        address |-> 4096,
        index |-> { [key |-> IF n = 0 THEN <<>> ELSE keys[n],
                     offset |-> Len(stream_of(keys, n))] :
                    n \in { m \in 0..(Len(keys) - 1) : m % IndexInterval = 0 } }]

\* TermDictionaryImpl::strictly_previous_key: an indexed key strictly below
\* the target and the offset of the entry after it, or the empty key and 0
strictly_previous_key(td, target_key) ==
    LET below == { e \in td.index : slice_lt(e.key, target_key) }
    IN IF below = {} THEN [key |-> <<>>, offset |-> 0]
       ELSE CHOOSE e \in below : \A o \in below : e.offset >= o.offset

\* &stream_data[from..to]: a slice is its address and its bytes
slice_of(td, from, to) ==
    [ptr |-> td.address + from, bytes |-> SubSeq(td.stream_data, from + 1, to)]

\* ====================================================== TermStreamerImpl

\* stream_before
stream_before(td, target_key) ==
    LET p == strictly_previous_key(td, target_key)
    IN [cursor |-> slice_of(td, p.offset, Len(td.stream_data)),
        current_key |-> p.key,
        current_value |-> TermInfo_default]

\* advance with the common prefix of the key dropped
stream_advance_no_prefix(st) ==
    IF st.cursor.bytes = <<>> THEN [ok |-> FALSE, st |-> st]
    ELSE LET common == deserialize_vint(st.cursor.bytes)
             added == deserialize_vint(common.rest)
             key == SubSeq(added.rest, 1, added.value)
             ti == deserialize_term_info(
                       SubSeq(added.rest, added.value + 1, Len(added.rest)))
         IN [ok |-> TRUE,
             st |-> [cursor |-> [ptr |-> st.cursor.ptr + Len(st.cursor.bytes)
                                         - Len(ti.rest),
                                 bytes |-> ti.rest],
                     current_key |-> key,
                     current_value |-> ti.value]]

\* advance clearing the key when the cursor is empty
stream_advance_clear_at_end(st) ==
    IF st.cursor.bytes = <<>>
    THEN [ok |-> FALSE, st |-> [st EXCEPT !.current_key = <<>>]]
    ELSE LET common == deserialize_vint(st.cursor.bytes)
             added == deserialize_vint(common.rest)
             key == SubSeq(st.current_key, 1,
                           Min(common.value, Len(st.current_key)))
                    \o SubSeq(added.rest, 1, added.value)
             ti == deserialize_term_info(
                       SubSeq(added.rest, added.value + 1, Len(added.rest)))
         IN [ok |-> TRUE,
             st |-> [cursor |-> [ptr |-> st.cursor.ptr + Len(st.cursor.bytes)
                                         - Len(ti.rest),
                                 bytes |-> ti.rest],
                     current_key |-> key,
                     current_value |-> ti.value]]

\* TermStreamerImpl::advance: [ok, st]
stream_advance(st) ==
    IF st.cursor.bytes = <<>> THEN [ok |-> FALSE, st |-> st]
    ELSE LET common == deserialize_vint(st.cursor.bytes)
             added == deserialize_vint(common.rest)
             key == SubSeq(st.current_key, 1,
                           Min(common.value, Len(st.current_key)))
                    \o SubSeq(added.rest, 1, added.value)
             ti == deserialize_term_info(
                       SubSeq(added.rest, added.value + 1, Len(added.rest)))
         IN [ok |-> TRUE,
             st |-> [cursor |-> [ptr |-> st.cursor.ptr + Len(st.cursor.bytes)
                                         - Len(ti.rest),
                                 bytes |-> ti.rest],
                     current_key |-> key,
                     current_value |-> ti.value]]

\* TermStreamerImpl::key and value
key(st) == st.current_key
value(st) == st.current_value

\* the closures |k| k.lt(target_key) and |k| k.le(target_key)
smaller_than(op, target_key) == [op |-> op, target_key |-> target_key]

call(predicate, k) ==
    IF predicate.op = "lt" THEN slice_lt(k, predicate.target_key)
    ELSE slice_le(k, predicate.target_key)

\* the loop of get_offset
RECURSIVE get_offset_loop(_, _, _, _)
get_offset_loop(predicate, st, prev, prev_data) ==
    LET n == stream_advance(st)
    IN IF ~n.ok \/ ~call(predicate, key(n.st))
       THEN [offset |-> prev.ptr, key |-> prev_data]
       ELSE get_offset_loop(predicate, n.st, n.st.cursor, key(n.st))

\* get_offset: the address of the first entry whose key fails the
\* predicate, and the key before it
get_offset(predicate, st) ==
    get_offset_loop(predicate, st, st.cursor, st.current_key)

\* ================================================ TermStreamerBuilderImpl

\* TermStreamerBuilderImpl::new
new_builder(td) ==
    [term_dictionary |-> td,
     origin |-> td.address,
     offset_from |-> 0,
     offset_to |-> Len(td.stream_data),
     current_key |-> <<>>]

\* ge that also takes the upper end of the range back to the end of the data
ge_whole_tail(b, bound) ==
    LET r == get_offset(smaller_than("lt", bound),
                        stream_before(b.term_dictionary, bound))
    IN [b EXCEPT !.current_key = r.key,
                 !.offset_from = r.offset - b.origin,
                 !.offset_to = Len(b.term_dictionary.stream_data)]

\* TermStreamerBuilderImpl::ge
ge(b, bound) ==
    LET r == get_offset(smaller_than("lt", bound),
                        stream_before(b.term_dictionary, bound))
    IN [b EXCEPT !.current_key = r.key,
                 !.offset_from = r.offset - b.origin]

\* gt scanning with the predicate of ge
gt_as_ge(b, bound) ==
    LET r == get_offset(smaller_than("lt", bound),
                        stream_before(b.term_dictionary, bound))
    IN [b EXCEPT !.current_key = r.key,
                 !.offset_from = r.offset - b.origin]

\* TermStreamerBuilderImpl::gt
gt(b, bound) ==
    LET r == get_offset(smaller_than("le", bound),
                        stream_before(b.term_dictionary, bound))
    IN [b EXCEPT !.current_key = r.key,
                 !.offset_from = r.offset - b.origin]

\* TermStreamerBuilderImpl::lt
lt(b, bound) ==
    LET r == get_offset(smaller_than("lt", bound),
                        stream_before(b.term_dictionary, bound))
    IN [b EXCEPT !.offset_to = r.offset - b.origin]

\* le that also takes the lower end of the range back to the first entry
le_from_start(b, bound) ==
    LET r == get_offset(smaller_than("le", bound),
                        stream_before(b.term_dictionary, bound))
    IN [b EXCEPT !.offset_to = r.offset - b.origin,
                 !.offset_from = 0,
                 !.current_key = <<>>]

\* TermStreamerBuilderImpl::le
le(b, bound) ==
    LET r == get_offset(smaller_than("le", bound),
                        stream_before(b.term_dictionary, bound))
    IN [b EXCEPT !.offset_to = r.offset - b.origin]

\* into_stream slicing between the two offsets whichever comes first
into_stream_swapped(b) ==
    LET start == IF b.offset_to < b.offset_from THEN b.offset_to
                 ELSE b.offset_from
        stop == IF b.offset_to < b.offset_from THEN b.offset_from
                ELSE b.offset_to
    IN [cursor |-> slice_of(b.term_dictionary, start, stop),
        current_key |-> b.current_key,
        current_value |-> TermInfo_default]

\* TermStreamerBuilderImpl::into_stream
into_stream(b) ==
    LET start == b.offset_from
        stop == IF b.offset_to > start THEN b.offset_to ELSE start
    IN [cursor |-> slice_of(b.term_dictionary, start, stop),
        current_key |-> b.current_key,
        current_value |-> TermInfo_default]

\* the bounds tried: every key and the empty slice
Bounds == Keys \cup {<<>>}

InitStream ==
    \E K \in SUBSET Keys :
        /\ Cardinality(K) <= MaxTerms
        /\ term_dictionary = TermDictionaryImpl(K)
        /\ builder = Some(new_builder(TermDictionaryImpl(K)))
        /\ streamer = None
        /\ lower = None
        /\ upper = None
        /\ stream_ret = [yielded |-> <<>>, last |-> "none"]
        /\ NoCursor /\ NoBlockCursor /\ NoBlockHistory
        /\ NoExcludeScorer /\ NoVint
        /\ NoQuery /\ NoAnalyzerManager

\* a bound call on the builder
Bounded(b, side_lower, side_upper) ==
    /\ builder' = Some(b)
    /\ lower' = side_lower
    /\ upper' = side_upper
    /\ UNCHANGED <<term_dictionary, streamer, stream_ret>>
    /\ UNCHANGED <<cursor_vars, block_vars, block_history_vars, exclude_vars,
                   vint_vars, query_vars, analyzer_vars>>

Ge ==
    /\ builder # None
    /\ \E bound \in Bounds :
        Bounded(ge(builder[1], bound), Some([op |-> "ge", bound |-> bound]), upper)

Gt ==
    /\ builder # None
    /\ \E bound \in Bounds :
        Bounded(gt(builder[1], bound), Some([op |-> "gt", bound |-> bound]), upper)

Lt ==
    /\ builder # None
    /\ \E bound \in Bounds :
        Bounded(lt(builder[1], bound), lower, Some([op |-> "lt", bound |-> bound]))

Le ==
    /\ builder # None
    /\ \E bound \in Bounds :
        Bounded(le(builder[1], bound), lower, Some([op |-> "le", bound |-> bound]))

\* a call of into_stream(), which takes the builder
IntoStream ==
    /\ builder # None
    /\ streamer' = Some(into_stream(builder[1]))
    /\ builder' = None
    /\ UNCHANGED <<term_dictionary, lower, upper, stream_ret>>
    /\ UNCHANGED <<cursor_vars, block_vars, block_history_vars, exclude_vars,
                   vint_vars, query_vars, analyzer_vars>>

\* a call of advance() on the stream, and of key() and value() after it
StreamAdvance ==
    /\ streamer # None
    /\ stream_ret.last # "false"
    /\ LET a == stream_advance(streamer[1])
       IN /\ streamer' = Some(a.st)
          /\ stream_ret' =
                [yielded |-> IF a.ok
                             THEN Append(stream_ret.yielded,
                                         [key |-> key(a.st), value |-> value(a.st)])
                             ELSE stream_ret.yielded,
                 last |-> IF a.ok THEN "true" ELSE "false"]
    /\ UNCHANGED <<term_dictionary, builder, lower, upper>>
    /\ UNCHANGED <<cursor_vars, block_vars, block_history_vars, exclude_vars,
                   vint_vars, query_vars, analyzer_vars>>

NextStream == Ge \/ Gt \/ Lt \/ Le \/ IntoStream \/ StreamAdvance

SpecStream == InitStream /\ [][NextStream]_vars

\* a bound of the lower side, or of the upper side, lets a key through
AdmitsLower(side, k) ==
    \/ side = None
    \/ side[1].op = "ge" /\ slice_le(side[1].bound, k)
    \/ side[1].op = "gt" /\ slice_lt(side[1].bound, k)

AdmitsUpper(side, k) ==
    \/ side = None
    \/ side[1].op = "le" /\ slice_le(k, side[1].bound)
    \/ side[1].op = "lt" /\ slice_lt(k, side[1].bound)

\* the entries of the dictionary within the bounds last given, in order
RECURSIVE InRange(_)
InRange(n) ==
    IF n = 0 THEN <<>>
    ELSE InRange(n - 1)
         \o IF /\ AdmitsLower(lower, term_dictionary.keys[n])
               /\ AdmitsUpper(upper, term_dictionary.keys[n])
            THEN <<[key |-> term_dictionary.keys[n], value |-> TermInfoOf(n)]>>
            ELSE <<>>

Expected == InRange(Len(term_dictionary.keys))

RECURSIVE Drain(_)
Drain(st) ==
    LET a == stream_advance(st)
    IN IF a.ok THEN {key(a.st)} \cup Drain(a.st) ELSE {}

Yield(b) == IF b = None THEN {} ELSE Drain(into_stream(b[1]))

\* a step that is a bound call
BoundCall == builder # None /\ builder' # None

\* C18 as stated: after any bound call the keys the built stream yields are
\* among those it would have yielded before the call.
C18_EveryBoundCallNarrows ==
    [][BoundCall => Yield(builder') \subseteq Yield(builder)]_vars

\* the bound given to a side is the first one, or lets through no key that
\* the bound it replaces held back
NotLooser ==
    /\ \A k \in Keys : AdmitsLower(lower', k) => AdmitsLower(lower, k)
    /\ \A k \in Keys : AdmitsUpper(upper', k) => AdmitsUpper(upper, k)

\* C18 amended: a bound call narrows the range when it is the first on its
\* side or when its bound is not looser than the one it replaces.
C18_BoundCallNarrowsUnlessLooser ==
    [][(BoundCall /\ NotLooser) => Yield(builder') \subseteq Yield(builder)]_vars

\* C18 witness: with both sides bounded the stream yields fewer keys than
\* the dictionary holds, and at least one.
C18_Witness ==
    /\ builder # None /\ lower # None /\ upper # None
    /\ Yield(builder) # {}
    /\ Cardinality(Yield(builder)) + 2 <= Len(term_dictionary.keys)

\* C19: the keys observed after successive successful advance() calls are
\* strictly increasing.
C19_KeysStrictlyIncreasing ==
    \A i \in 1..(Len(stream_ret.yielded) - 1) :
        slice_lt(stream_ret.yielded[i].key, stream_ret.yielded[i + 1].key)

\* C19 witness: three keys were observed, the second longer than the third.
C19_Witness ==
    /\ Len(stream_ret.yielded) >= 3
    /\ Len(stream_ret.yielded[2].key) > Len(stream_ret.yielded[3].key)

\* ================================================ SegmentPostings, again

\* the docs of the posting list that are not deleted
LiveDocs ==
    { postings.docs[i] : i \in 1..Len(postings.docs) } \ delete_bitset

\* where the cursor is before a call: on a doc, or before the first one
Position == IF OnDoc THEN doc(self) ELSE -1

\* the cursor is new, or on a doc
Placed == ret.op = "new" \/ OnDoc

\* the docs skip_next(target) may land on: not deleted, at or above the
\* target, after the cursor's position
LandingDocs(target) == { d \in LiveDocs : d >= target /\ d > Position }

\* a step that is a call of skip_next() on a cursor that is new or on a doc
SkipStep == MoveStep /\ ret'.op = "skip_next" /\ Placed

\* C26: a skip_next(t) that succeeds lands on the smallest doc that is not
\* deleted, is at or above t, and is after the cursor's position before the
\* call.
C26_SkipLandsOnSmallestLiveDoc ==
    [][(SkipStep /\ Succeeded(ret'))
         => /\ LandingDocs(ret'.target) # {}
            /\ doc(self)' = CHOOSE d \in LandingDocs(ret'.target) :
                                \A o \in LandingDocs(ret'.target) : d <= o]_vars

\* the positions of the current doc were read, or no doc was visited yet
PositionsLoaded == ret.op = "new" \/ pos_ret.op # "none"

\* C27: on a cursor opened with positions, whose positions are loaded for
\* the current doc or which has visited no doc, after a skip_next() that
\* returns Reached or OverStep positions() returns the landed doc's own
\* positions.
C27_PositionsAfterSkip ==
    [][(/\ SkipStep /\ Succeeded(ret')
        /\ position_computer # None /\ PositionsLoaded)
         => positions(self)'.value = OwnPositions(DocIndex)']_vars


\* the docs of the posting list above the current doc that are not deleted
LiveAbove == { d \in LiveDocs : d > doc(self) }

\* a call of skip_next(t) made on a doc c with t <= c
SkipBackStep ==
    /\ MoveStep /\ ret'.op = "skip_next"
    /\ OnDoc /\ ret'.target <= doc(self)

\* C28: skip_next(t) called on a doc c with t <= c never returns Reached:
\* it returns OverStep with doc() the next doc after c that is not deleted,
\* or End when there is none.
C28_SkipBackOversteps ==
    [][SkipBackStep
         => IF LiveAbove = {}
            THEN ret'.result = "End"
            ELSE /\ ret'.result = "OverStep"
                 /\ doc(self)' = CHOOSE d \in LiveAbove :
                                     \A o \in LiveAbove : d <= o]_vars

\* C28 witness: skip_next(t1) stopped on a doc c, then skip_next(t2) with
\* t2 <= c returned OverStep on a later doc, past a deleted one.
C28_Witness ==
    /\ Len(skip_targets) = 2
    /\ FirstSkip.result # "End"
    /\ skip_targets[2] <= FirstSkip.doc
    /\ ret.result = "OverStep"
    /\ \E d \in delete_bitset : FirstSkip.doc < d /\ d < doc(self)


\* ========================================= BlockSegmentPostings, again

\* a step that is a call of next(), that is of advance()
BlockAdvanceStep == Len(block_hist') = Len(block_hist) + 1

\* the last call was an advance() that returned false
BlockFailed == ret.op = "advance" /\ ret.result = "false"

\* C29: once advance() has returned false, every further advance() returns
\* false too and leaves docs() and freqs() as they were; next() returns
\* Some(docs()) exactly when advance() returns true, None otherwise.
C29_FailedAdvanceIsFrozen ==
    [][BlockAdvanceStep
         => /\ BlockFailed
                 => /\ ~block_advance(block_cursor).ok
                    /\ docs(block_cursor)' = docs(block_cursor)
                    /\ freqs(block_cursor)' = freqs(block_cursor)
            /\ ~block_advance(block_cursor).ok
                 => /\ docs(block_cursor)' = docs(block_cursor)
                    /\ freqs(block_cursor)' = freqs(block_cursor)
            /\ block_hist'[Len(block_hist')] =
                   IF block_advance(block_cursor).ok
                   THEN Some(docs(block_cursor)')
                   ELSE None]_vars

\* C29 witness: a list with freqs was read to its end and advance() failed
\* twice after the tail block, which docs() still returns.
C29_Witness ==
    /\ FailedTwice
    /\ postings.option # "NoFreq"
    /\ Len(postings.docs) > NUM_DOCS_PER_BLOCK
    /\ Len(block_hist) = NumBlocks(Len(postings.docs)) + 2
    /\ docs(block_cursor) = BlockOf(postings, NumBlocks(Len(postings.docs)))
    /\ freqs(block_cursor) # <<>>


\* =============================================== TermStreamerImpl, again

\* a step that is a call of advance() on the stream
StreamAdvanceStep == stream_ret' # stream_ret

\* the entry of the dictionary the cursor stands before
EntryAtCursor ==
    CHOOSE n \in 1..Len(term_dictionary.keys) :
        Len(stream_of(term_dictionary.keys, n - 1))
            = streamer[1].cursor.ptr - term_dictionary.address

\* the common_prefix_len written for the n-th entry, and its suffix
WrittenCommon(n) ==
    common_prefix_len(IF n = 1 THEN <<>> ELSE term_dictionary.keys[n - 1],
                      term_dictionary.keys[n])

WrittenSuffix(n) ==
    SubSeq(term_dictionary.keys[n], WrittenCommon(n) + 1,
           Len(term_dictionary.keys[n]))

\* C30: advance() returns false iff the cursor is empty, and then leaves
\* key(), value() and the cursor as they were; otherwise it returns true
\* with key() the first common_prefix_len bytes of the previous key followed
\* by the entry's suffix, value() the entry's TermInfo, and the cursor moved
\* past exactly that one entry.
C30_AdvanceReadsOneEntry ==
    [][StreamAdvanceStep
         => IF streamer[1].cursor.bytes = <<>>
            THEN /\ stream_ret'.last = "false"
                 /\ streamer' = streamer
            ELSE LET n == EntryAtCursor
                 IN /\ stream_ret'.last = "true"
                    /\ key(streamer[1])' =
                          SubSeq(key(streamer[1]), 1, WrittenCommon(n))
                          \o WrittenSuffix(n)
                    /\ Len(key(streamer[1])') =
                          WrittenCommon(n) + Len(WrittenSuffix(n))
                    /\ value(streamer[1])' = TermInfoOf(n)
                    /\ streamer[1].cursor.ptr' =
                          term_dictionary.address
                          + Len(stream_of(term_dictionary.keys, n))
                    /\ streamer[1].cursor.bytes' =
                          SubSeq(streamer[1].cursor.bytes,
                                 Len(serialize_entry(
                                        IF n = 1 THEN <<>>
                                        ELSE term_dictionary.keys[n - 1],
                                        term_dictionary.keys[n],
                                        TermInfoOf(n))) + 1,
                                 Len(streamer[1].cursor.bytes))]_vars

\* C30 witness: a bounded stream read an entry sharing a prefix with the
\* key before it, and then advance() returned false on the empty cursor.
C30_Witness ==
    /\ streamer # None
    /\ lower # None
    /\ stream_ret.last = "false"
    /\ Len(stream_ret.yielded) >= 2
    /\ streamer[1].cursor.bytes = <<>>
    /\ key(streamer[1]) = stream_ret.yielded[Len(stream_ret.yielded)].key
    /\ common_prefix_len(
           stream_ret.yielded[Len(stream_ret.yielded) - 1].key,
           key(streamer[1])) > 0


\* ============================================================ the segment

\* stream_of, with the TermInfos given
RECURSIVE stream_with(_, _, _)
stream_with(keys, values, n) ==
    IF n = 0 THEN <<>>
    ELSE stream_with(keys, values, n - 1)
         \o serialize_entry(IF n = 1 THEN <<>> ELSE keys[n - 1], keys[n],
                            values[n])

\* the dictionary written for sorted keys and their TermInfos
TermDictionaryWith(keys, values) ==
    [keys |-> keys,
     stream_data |-> stream_with(keys, values, Len(keys)),
     address |-> 4096,
     index |-> { [key |-> IF n = 0 THEN <<>> ELSE keys[n],
                  offset |-> Len(stream_with(keys, values, n))] :
                 n \in { m \in 0..(Len(keys) - 1) : m % IndexInterval = 0 } }]

\* the docs holding the i-th term of a segment: doc d is tagged with the
\* term when d + seed is a multiple of i + 1, so that terms share docs
TaggedDocs(i, seed) == { d \in 0..MaxDoc : (d + seed) % (i + 1) = 0 }

\* the posting list of the i-th term
TermPostings(i, seed, option) ==
    LET tagged == SortedSeq(TaggedDocs(i, seed))
    IN [docs |-> tagged,
        freqs |-> IF option = "NoFreq" THEN [k \in 1..Len(tagged) |-> 1]
                  ELSE FreqPattern(Len(tagged), 0),
        option |-> option]

\* the postings file up to and including the list of the n-th term
RECURSIVE PostingsFile(_, _, _)
PostingsFile(n, seed, option) ==
    IF n = 0 THEN <<>>
    ELSE PostingsFile(n - 1, seed, option)
         \o encoded(TermPostings(n, seed, option))

\* the SegmentReader of a segment whose field holds the terms K, indexed
\* with the given option: max_doc, the field's dictionary and postings
\* file, and the delete bitset
SegmentReader(K, seed, deleted, option) ==
    LET keys == SortedKeys(K)
    IN [max_doc |-> max_doc,
        terms |-> TermDictionaryWith(keys,
                     [i \in 1..Len(keys) |->
                         [doc_freq |-> Cardinality(TaggedDocs(i, seed)),
                          postings_offset |->
                              Len(PostingsFile(i - 1, seed, option))]]),
        postings_source |-> PostingsFile(Len(keys), seed, option),
        delete_bitset |-> deleted,
        seed |-> seed,
        record_option |-> option]

\* the segments tried: at most MaxTerms terms, one doc deleted or none
Seeds == {0, 1}
DeleteSets == {{}} \cup { {d} : d \in 0..MaxDoc }
TermSets == { K \in SUBSET Keys : Cardinality(K) <= MaxTerms }

\* TermDictionary::get: the TermInfo of a key, read off the stream
termdict_get(td, k) ==
    LET a == stream_advance(into_stream(ge(new_builder(td), k)))
    IN IF a.ok /\ key(a.st) = k THEN Some(value(a.st)) ELSE None

\* the factory of block postings: the cursor over the postings file from
\* the TermInfo's offset on
read_block_postings_from_terminfo(reader, term_info, option) ==
    from_data(term_info.doc_freq,
              SubSeq(reader.postings_source, term_info.postings_offset + 1,
                     Len(reader.postings_source)),
              option # "NoFreq")

\* read_postings: the SegmentPostings of a term, None when the dictionary
\* does not hold it
read_postings(reader, term, option) ==
    LET term_info == termdict_get(reader.terms, term)
    IN IF term_info = None THEN None
       ELSE Some(from_block_postings(
                read_block_postings_from_terminfo(reader, term_info[1], option),
                reader.delete_bitset,
                IF option = "FreqAndPositions" THEN Some(0) ELSE None))

\* get_fieldnorms_reader: the segment's field has no field norms
get_fieldnorms_reader(reader) == None

\* ============================================================= TermWeight

\* the greatest common divisor
RECURSIVE Gcd(_, _)
Gcd(a, b) == IF b = 0 THEN a ELSE Gcd(b, a % b)

\* the f32 1.0 + ln(n / d), for n > 0, kept as the ratio it is taken of;
\* 1f32 is 1.0 + ln(1 / 1)
one_plus_ln(n, d) == <<n \div Gcd(n, d), d \div Gcd(n, d)>>

\* TermWeight::idf
idf(w) == one_plus_ln(w.num_docs, w.doc_freq + 1)

\* specialized_scorer failing on a term the dictionary does not hold
specialized_scorer_or_err(w, reader) ==
    LET fieldnorm_reader_opt == get_fieldnorms_reader(reader)
        postings_opt == read_postings(reader, w.term,
                                      w.segment_postings_options)
    IN IF postings_opt # None
       THEN [result |-> "Ok",
             idf |-> idf(w),
             fieldnorm_reader_opt |-> fieldnorm_reader_opt,
             postings |-> postings_opt[1]]
       ELSE [result |-> "Err", idf |-> one_plus_ln(1, 1),
             fieldnorm_reader_opt |-> None, postings |-> empty]

\* TermWeight::specialized_scorer: the Result and, within it, the TermScorer
specialized_scorer(w, reader) ==
    LET fieldnorm_reader_opt == get_fieldnorms_reader(reader)
        postings_opt == read_postings(reader, w.term,
                                      w.segment_postings_options)
    IN IF postings_opt # None
       THEN [result |-> "Ok",
             idf |-> idf(w),
             fieldnorm_reader_opt |-> fieldnorm_reader_opt,
             postings |-> postings_opt[1]]
       ELSE [result |-> "Ok",
             idf |-> one_plus_ln(1, 1),
             fieldnorm_reader_opt |-> None,
             postings |-> empty]

\* the rank of a term in the segment's dictionary, 0 when it is not there
RankOf(reader, term) ==
    IF \E i \in 1..Len(reader.terms.keys) : reader.terms.keys[i] = term
    THEN CHOOSE i \in 1..Len(reader.terms.keys) : reader.terms.keys[i] = term
    ELSE 0

\* a TermWeight for a term over a segment, the segment being the index;
\* the doc deleted, if any, is one of the first two
InitTerm ==
    \E K \in TermSets, seed \in Seeds :
    \E deleted \in { D \in DeleteSets : D \subseteq 0..1 } :
    \E option \in Options, term \in Keys :
        LET reader == SegmentReader(K, seed, deleted, option)
            rank == RankOf(reader, term)
        IN /\ segment_reader = reader
           /\ term_weight =
                 [num_docs |-> reader.max_doc,
                  doc_freq |-> IF rank = 0 THEN 0
                               ELSE Cardinality(TaggedDocs(rank, seed)),
                  term |-> term,
                  segment_postings_options |-> option]
           /\ term_scorer = None
           /\ NoCursor /\ NoBlockCursor /\ NoBlockHistory
           /\ NoExcludeScorer /\ NoTermStreamer /\ NoVint
           /\ NoRangeWeight /\ NoAnalyzerManager

\* a call of specialized_scorer(reader); the scorer's postings are the
\* SegmentPostings cursor of the state
SpecializedScorer ==
    /\ term_scorer = None
    /\ \E r \in {specialized_scorer(term_weight, segment_reader)} :
       \E rank \in {RankOf(segment_reader, term_weight.term)} :
          /\ term_scorer' = Some([result |-> r.result, idf |-> r.idf,
                                  fieldnorm_reader_opt |-> r.fieldnorm_reader_opt])
          /\ IF r.result = "Ok"
             THEN /\ block_cursor' = r.postings.block_cursor
                  /\ cur' = r.postings.cur
                  /\ delete_bitset' = r.postings.delete_bitset
                  /\ position_computer' = r.postings.position_computer
                  /\ postings' =
                        IF rank = 0
                        THEN [docs |-> <<>>, freqs |-> <<>>, option |-> "NoFreq"]
                        ELSE TermPostings(rank, segment_reader.seed,
                                          segment_reader.record_option)
                  /\ ret' = no_call
                  /\ pos_ret' = no_read
                  /\ last_doc' = -1
                  /\ end_returned' = FALSE
                  /\ used_skip' = FALSE
                  /\ skip_targets' = <<>>
             ELSE UNCHANGED <<block_vars, cursor_vars>>
    /\ UNCHANGED <<segment_reader, term_weight>>
    /\ UNCHANGED <<block_history_vars, exclude_vars, stream_vars, vint_vars,
                   range_vars, analyzer_vars>>

\* the scorer was built
Scoring == term_scorer # None /\ term_scorer[1].result = "Ok"

\* advance() and skip_next(target) on the scorer, which hands them to its
\* postings
TermAdvance == Scoring /\ Advance

TermSkipNext == Scoring /\ SkipNext

NextTerm == SpecializedScorer \/ TermAdvance \/ TermSkipNext

SpecTerm == InitTerm /\ [][NextTerm]_vars

\* the term of the weight is not in the segment's dictionary
Absent == RankOf(segment_reader, term_weight.term) = 0

\* C23: for a term the segment's dictionary does not hold,
\* specialized_scorer returns Ok with a scorer over SegmentPostings::empty():
\* its len() is 0, every advance() returns false and every skip_next
\* returns End, so no doc is ever produced.
C23_AbsentTermScoresNothing ==
    (term_scorer # None /\ Absent)
    => /\ term_scorer[1].result = "Ok"
       /\ self = empty
       /\ len(self) = 0
       /\ ret.op = "advance" => ret.result = "false"
       /\ ret.op = "skip_next" => ret.result = "End"
       /\ last_doc = -1

\* C23 witness: over a segment holding other terms, the scorer of an absent
\* term was asked skip_next and then advance(), which returned false.
C23_Witness ==
    /\ term_scorer # None /\ Absent
    /\ Len(segment_reader.terms.keys) = MaxTerms
    /\ end_returned
    /\ ret.op = "advance" /\ ret.result = "false"


\* ============================================================ RangeWeight

\* std::collections::Bound over byte strings
Unbounded == [kind |-> "Unbounded", value |-> <<>>]
Included(v) == [kind |-> "Included", value |-> v]
Excluded(v) == [kind |-> "Excluded", value |-> v]

\* BitSet::with_max_value, BitSet::insert: the bits set, below max_value
bitset_with_max_value(max_value) == [max_value |-> max_value, bits |-> {}]
bitset_insert(bitset, el) == [bitset EXCEPT !.bits = @ \cup {el}]

\* BitSetDocSet::from and ConstScorer::new: a docset over the set bits, not
\* yet on a doc
bitset_docset(bitset) == [docs |-> bitset, doc |-> -1]

\* advance() of the ConstScorer, that is of its BitSetDocSet: to the next
\* set bit in ascending order; [ok, ds]
bitset_docset_advance(ds) ==
    LET above == { d \in ds.docs.bits : d > ds.doc }
    IN IF above = {} THEN [ok |-> FALSE, ds |-> ds]
       ELSE [ok |-> TRUE,
             ds |-> [ds EXCEPT !.doc = CHOOSE d \in above :
                                           \A o \in above : d <= o]]

\* term_range with an excluded left bound taken as included
term_range_left_included(w, term_dict) ==
    LET b0 == new_builder(term_dict)
        b1 == IF w.left_bound.kind = "Unbounded" THEN b0
              ELSE ge(b0, w.left_bound.value)
        b2 == IF w.right_bound.kind = "Included"
              THEN le(b1, w.right_bound.value)
              ELSE IF w.right_bound.kind = "Excluded"
                   THEN lt(b1, w.right_bound.value)
                   ELSE b1
    IN into_stream(b2)

\* RangeWeight::term_range: the stream over the terms within the bounds
term_range(w, term_dict) ==
    LET b0 == new_builder(term_dict)
        b1 == IF w.left_bound.kind = "Included"
              THEN ge(b0, w.left_bound.value)
              ELSE IF w.left_bound.kind = "Excluded"
                   THEN gt(b0, w.left_bound.value)
                   ELSE b0
        b2 == IF w.right_bound.kind = "Included"
              THEN le(b1, w.right_bound.value)
              ELSE IF w.right_bound.kind = "Excluded"
                   THEN lt(b1, w.right_bound.value)
                   ELSE b1
    IN into_stream(b2)

\* the docs of a sequence, inserted one by one
RECURSIVE insert_docs(_, _)
insert_docs(doc_bitset, block_docs) ==
    IF block_docs = <<>> THEN doc_bitset
    ELSE insert_docs(bitset_insert(doc_bitset, Head(block_docs)),
                     Tail(block_docs))

\* the inner loop of scorer: while block_segment_postings.advance()
RECURSIVE insert_blocks(_, _)
insert_blocks(doc_bitset, block_segment_postings) ==
    LET a == block_advance(block_segment_postings)
    IN IF ~a.ok THEN doc_bitset
       ELSE insert_blocks(insert_docs(doc_bitset, docs(a.bc)), a.bc)

\* the outer loop of scorer: while term_range.advance()
RECURSIVE insert_terms(_, _, _)
insert_terms(doc_bitset, reader, stream) ==
    LET a == stream_advance(stream)
    IN IF ~a.ok THEN doc_bitset
       ELSE insert_terms(
                insert_blocks(doc_bitset,
                    read_block_postings_from_terminfo(reader, value(a.st),
                                                      "NoFreq")),
                reader, a.st)

\* RangeWeight::scorer: the ConstScorer over the docs of the terms in range
range_scorer_of(w, reader) ==
    bitset_docset(
        insert_terms(bitset_with_max_value(reader.max_doc), reader,
                     term_range(w, reader.terms)))

\* the bounds tried: none, or a key included or excluded
BoundValues ==
    {Unbounded} \cup { Included(k) : k \in Keys } \cup { Excluded(k) : k \in Keys }

\* a RangeWeight over a segment whose field is indexed without frequencies
InitRange ==
    \E K \in TermSets, seed \in Seeds, deleted \in DeleteSets :
    \E left \in BoundValues, right \in BoundValues :
        /\ segment_reader = SegmentReader(K, seed, deleted, "NoFreq")
        /\ range_weight = [field |-> 0, left_bound |-> left,
                           right_bound |-> right]
        /\ range_scorer = None
        /\ range_hits = [yielded |-> <<>>, last |-> "none"]
        /\ NoCursor /\ NoBlockCursor /\ NoBlockHistory
        /\ NoExcludeScorer /\ NoTermStreamer /\ NoVint
        /\ NoTermWeight /\ NoAnalyzerManager

\* a call of scorer(reader)
RangeScorer ==
    /\ range_scorer = None
    /\ range_scorer' = Some(range_scorer_of(range_weight, segment_reader))
    /\ UNCHANGED <<segment_reader, range_weight, range_hits>>
    /\ UNCHANGED <<cursor_vars, block_vars, block_history_vars, exclude_vars,
                   stream_vars, vint_vars, weight_vars, analyzer_vars>>

\* a call of advance() on the scorer, and of doc() after it
RangeAdvance ==
    /\ range_scorer # None
    /\ range_hits.last # "false"
    /\ LET a == bitset_docset_advance(range_scorer[1])
       IN /\ range_scorer' = Some(a.ds)
          /\ range_hits' =
                [yielded |-> IF a.ok THEN Append(range_hits.yielded, a.ds.doc)
                             ELSE range_hits.yielded,
                 last |-> IF a.ok THEN "true" ELSE "false"]
    /\ UNCHANGED <<segment_reader, range_weight>>
    /\ UNCHANGED <<cursor_vars, block_vars, block_history_vars, exclude_vars,
                   stream_vars, vint_vars, weight_vars, analyzer_vars>>

NextRange == RangeScorer \/ RangeAdvance

SpecRange == InitRange /\ [][NextRange]_vars

\* a key is within the bounds of the weight
WithinLeft(k) ==
    \/ range_weight.left_bound.kind = "Unbounded"
    \/ /\ range_weight.left_bound.kind = "Included"
       /\ slice_le(range_weight.left_bound.value, k)
    \/ /\ range_weight.left_bound.kind = "Excluded"
       /\ slice_lt(range_weight.left_bound.value, k)

WithinRight(k) ==
    \/ range_weight.right_bound.kind = "Unbounded"
    \/ /\ range_weight.right_bound.kind = "Included"
       /\ slice_le(k, range_weight.right_bound.value)
    \/ /\ range_weight.right_bound.kind = "Excluded"
       /\ slice_lt(k, range_weight.right_bound.value)

\* the ranks of the terms of the segment within the bounds
TermsInRange ==
    { i \in 1..Len(segment_reader.terms.keys) :
        /\ WithinLeft(segment_reader.terms.keys[i])
        /\ WithinRight(segment_reader.terms.keys[i]) }

\* the union of the posting lists of the terms in range
DocsInRange == UNION { TaggedDocs(i, segment_reader.seed) : i \in TermsInRange }

\* C21: the scorer of a RangeWeight holds exactly the union of the posting
\* lists of the terms within (left_bound, right_bound), and produces each
\* of its docs once, in ascending order, whatever number of in-range terms
\* a doc is in.
C21_RangeScorerIsUnion ==
    range_scorer # None
    => /\ range_scorer[1].docs.bits = DocsInRange
       /\ \A i \in 1..Len(range_hits.yielded) :
            /\ range_hits.yielded[i] \in DocsInRange
            /\ \A j \in 1..(i - 1) : range_hits.yielded[j] < range_hits.yielded[i]
       /\ range_hits.last = "false"
            => range_hits.yielded = SortedSeq(DocsInRange)

\* C21 witness: two terms in range share a doc, another term is out of
\* range, and the scorer was read to its end.
C21_Witness ==
    /\ range_scorer # None
    /\ range_hits.last = "false"
    /\ Cardinality(TermsInRange) >= 2
    /\ Cardinality(TermsInRange) < Len(segment_reader.terms.keys)
    /\ \E i \in TermsInRange, j \in TermsInRange :
          i # j /\ TaggedDocs(i, segment_reader.seed)
                     \cap TaggedDocs(j, segment_reader.seed) # {}
    /\ range_weight.left_bound.kind = "Excluded"
    /\ range_weight.right_bound.kind = "Included"
    /\ Len(range_hits.yielded) >= 2

\* C22: a doc marked deleted in the segment is never produced by the
\* scorer of a RangeWeight.
C22_RangeScorerSkipsDeleted ==
    range_scorer # None
    => \A i \in 1..Len(range_hits.yielded) :
          ~is_deleted(segment_reader.delete_bitset, range_hits.yielded[i])


\* ======================================================== AnalyzerManager

\* the tokenizers and token filters, and RemoveLongFilter::limit
RawTokenizer == <<<<"RawTokenizer">>>>
SimpleTokenizer == <<<<"SimpleTokenizer">>>>
JapaneseTokenizer == <<<<"JapaneseTokenizer">>>>
LowerCaser == <<"LowerCaser">>
Stemmer_new == <<"Stemmer">>
RemoveLongFilter_limit(length_limit) == <<"RemoveLongFilter", length_limit>>

\* Analyzer::filter: ChainAnalyzer { head: new_filter, tail: self }, the
\* chain written head first
filter(analyzer, new_filter) == <<new_filter>> \o analyzer

\* a HashMap with no entry, and HashMap::insert
EmptyMap == [n \in {} |-> 0]
map_insert(map, k, v) ==
    [n \in DOMAIN map \cup {k} |-> IF n = k THEN v ELSE map[n]]

\* a free address of the heap: the lowest
alloc(h) ==
    CHOOSE a \in 0..Cardinality(DOMAIN h) :
        a \notin DOMAIN h /\ \A b \in 0..(a - 1) : b \in DOMAIN h

\* a box is dropped
drop(h, ptr) == [a \in DOMAIN h \ {ptr} |-> h[a]]

\* a new box holding an object: [heap, ptr]
box(h, object) ==
    [heap |-> [a \in DOMAIN h \cup {alloc(h)} |->
                  IF a = alloc(h) THEN object ELSE h[a]],
     ptr |-> alloc(h)]

\* box_analyzer: a new Box<BoxedAnalyzer>; touched is what its &mut self
\* methods have changed of it, nothing yet
box_analyzer(h, analyzer) == box(h, [analyzer |-> analyzer, touched |-> FALSE])

\* boxed_clone handing out the box itself
boxed_clone_shared(h, ptr) == [heap |-> h, ptr |-> ptr]

\* BoxedAnalyzer::boxed_clone: box self.clone()
boxed_clone(h, ptr) == box(h, h[ptr])

\* BoxedAnalyzer::token_stream(&mut self, text)
token_stream(h, ptr) == [h EXCEPT ![ptr].touched = TRUE]

\* the insert of register, under the write lock: the box the name had is
\* dropped; [analyzers, heap]
insert(map, h, analyzer_name, boxed_analyzer) ==
    [analyzers |-> map_insert(map, analyzer_name, boxed_analyzer),
     heap |-> IF analyzer_name \in DOMAIN map
              THEN drop(h, map[analyzer_name]) ELSE h]

\* AnalyzerManager::register, from its call to its return
register(manager, analyzer_name, analyzer) ==
    LET boxed_analyzer == box_analyzer(manager.heap, analyzer)
    IN insert(manager.analyzers, boxed_analyzer.heap, analyzer_name,
              boxed_analyzer.ptr)

\* the lookup of get, under the read lock: [result, heap]
lookup(map, h, analyzer_name) ==
    IF analyzer_name \in DOMAIN map
    THEN LET c == boxed_clone(h, map[analyzer_name])
         IN [result |-> Some(c.ptr), heap |-> c.heap]
    ELSE [result |-> None, heap |-> h]

\* the default manager as its doc comment lists it: simple, en_stem, jp
analyzer_manager_as_documented ==
    LET manager == [analyzers |-> EmptyMap, heap |-> EmptyMap]
        m1 == register(manager, "simple",
                  filter(filter(SimpleTokenizer, RemoveLongFilter_limit(40)),
                         LowerCaser))
        m2 == register(m1, "en_stem",
                  filter(filter(filter(SimpleTokenizer,
                                       RemoveLongFilter_limit(40)),
                                LowerCaser),
                         Stemmer_new))
    IN register(m2, "jp",
                filter(JapaneseTokenizer, RemoveLongFilter_limit(40)))

\* AnalyzerManager::default
analyzer_manager_default ==
    LET manager == [analyzers |-> EmptyMap, heap |-> EmptyMap]
        m1 == register(manager, "raw", RawTokenizer)
        m2 == register(m1, "default",
                  filter(filter(SimpleTokenizer, RemoveLongFilter_limit(40)),
                         LowerCaser))
        m3 == register(m2, "en_stem",
                  filter(filter(filter(SimpleTokenizer,
                                       RemoveLongFilter_limit(40)),
                                LowerCaser),
                         Stemmer_new))
    IN register(m3, "ja",
                filter(JapaneseTokenizer, RemoveLongFilter_limit(40)))

\* the threads sharing the manager, the names they ask for, the names they
\* register, and the analyzer each of them registers
Threads == {1, 2}
AnalyzerNames == {"raw", "default", "en_stem", "ja", "simple", "jp"}
RegisterNames == {"default", "simple"}
RegisterAnalyzer(t) ==
    IF t = 1 THEN RawTokenizer ELSE filter(SimpleTokenizer, LowerCaser)

\* a thread between two calls, holding nothing
idle == [pc |-> "idle", name |-> "", boxed |-> None, result |-> None,
         used |-> FALSE]

\* a default-constructed manager, shared by the threads; the inserts of
\* the construction are registrations by thread 0
InitAnalyzer ==
    /\ analyzers = analyzer_manager_default.analyzers
    /\ heap = analyzer_manager_default.heap
    /\ rw_lock = [writer |-> None, readers |-> {}]
    /\ threads = [t \in Threads |-> idle]
    /\ registrations =
          \* the boxes of the construction are at addresses 0, 1, ... in the
          \* order of its register calls
          LET m == analyzer_manager_default
          IN [i \in 1..Cardinality(DOMAIN m.analyzers) |->
                 [name |-> CHOOSE n \in DOMAIN m.analyzers :
                               m.analyzers[n] = i - 1,
                  analyzer |-> m.heap[i - 1].analyzer,
                  by |-> 0]]
    /\ NoCursor /\ NoBlockCursor /\ NoBlockHistory
    /\ NoExcludeScorer /\ NoTermStreamer /\ NoVint /\ NoQuery

\* the heap once the thread has let go of what its last get returned
released(t) ==
    IF threads[t].result # None THEN drop(heap, threads[t].result[1]) ELSE heap

\* the register() calls made by the threads so far, returned or not
Registering ==
    Cardinality({ i \in 1..Len(registrations) : registrations[i].by # 0 })
    + Cardinality({ t \in Threads :
                      threads[t].pc \in {"write", "insert"} })

AnalyzerFrame ==
    UNCHANGED <<cursor_vars, block_vars, block_history_vars, exclude_vars,
                stream_vars, vint_vars, query_vars>>

\* register(name, analyzer) is called: the analyzer is boxed
RegisterCall(t) ==
    /\ threads[t].pc = "idle"
    /\ Registering < MaxRegisters
    /\ \E analyzer_name \in RegisterNames :
        LET boxed_analyzer == box_analyzer(released(t), RegisterAnalyzer(t))
        IN /\ heap' = boxed_analyzer.heap
           /\ threads' = [threads EXCEPT ![t] =
                 [pc |-> "write", name |-> analyzer_name,
                  boxed |-> Some(boxed_analyzer.ptr), result |-> None,
                  used |-> FALSE]]
    /\ UNCHANGED <<analyzers, rw_lock, registrations>>
    /\ AnalyzerFrame

\* .write(): granted when no thread holds the lock
AcquireWrite(t) ==
    /\ threads[t].pc = "write"
    /\ rw_lock.writer = None /\ rw_lock.readers = {}
    /\ rw_lock' = [rw_lock EXCEPT !.writer = Some(t)]
    /\ threads' = [threads EXCEPT ![t].pc = "insert"]
    /\ UNCHANGED <<analyzers, heap, registrations>>
    /\ AnalyzerFrame

\* .insert(analyzer_name.to_string(), boxed_analyzer)
Insert(t) ==
    /\ threads[t].pc = "insert"
    /\ LET r == insert(analyzers, heap, threads[t].name, threads[t].boxed[1])
       IN /\ analyzers' = r.analyzers
          /\ heap' = r.heap
    /\ registrations' =
          Append(registrations,
                 [name |-> threads[t].name,
                  analyzer |-> heap[threads[t].boxed[1]].analyzer,
                  by |-> t])
    /\ threads' = [threads EXCEPT ![t].pc = "unlock_write", ![t].boxed = None]
    /\ UNCHANGED rw_lock
    /\ AnalyzerFrame

\* the write guard is dropped and register returns
ReleaseWrite(t) ==
    /\ threads[t].pc = "unlock_write"
    /\ rw_lock' = [rw_lock EXCEPT !.writer = None]
    /\ threads' = [threads EXCEPT ![t].pc = "idle"]
    /\ UNCHANGED <<analyzers, heap, registrations>>
    /\ AnalyzerFrame

\* get(name) is called
GetCall(t) ==
    /\ threads[t].pc = "idle"
    /\ \E analyzer_name \in AnalyzerNames :
        threads' = [threads EXCEPT ![t] =
            [pc |-> "read", name |-> analyzer_name, boxed |-> None,
             result |-> None, used |-> FALSE]]
    /\ heap' = released(t)
    /\ UNCHANGED <<analyzers, rw_lock, registrations>>
    /\ AnalyzerFrame

\* .read(): granted when no thread holds the write lock
AcquireRead(t) ==
    /\ threads[t].pc = "read"
    /\ rw_lock.writer = None
    /\ rw_lock' = [rw_lock EXCEPT !.readers = @ \cup {t}]
    /\ threads' = [threads EXCEPT ![t].pc = "lookup"]
    /\ UNCHANGED <<analyzers, heap, registrations>>
    /\ AnalyzerFrame

\* .get(analyzer_name.as_ref()).map(|boxed_analyzer| boxed_analyzer.boxed_clone())
Lookup(t) ==
    /\ threads[t].pc = "lookup"
    /\ LET r == lookup(analyzers, heap, threads[t].name)
       IN /\ heap' = r.heap
          /\ threads' = [threads EXCEPT ![t].pc = "unlock_read",
                                        ![t].result = r.result]
    /\ UNCHANGED <<analyzers, rw_lock, registrations>>
    /\ AnalyzerFrame

\* the read guard is dropped and get returns
ReleaseRead(t) ==
    /\ threads[t].pc = "unlock_read"
    /\ rw_lock' = [rw_lock EXCEPT !.readers = @ \ {t}]
    /\ threads' = [threads EXCEPT ![t].pc = "idle"]
    /\ UNCHANGED <<analyzers, heap, registrations>>
    /\ AnalyzerFrame

\* the thread uses the analyzer its get returned: token_stream(&mut self)
Use(t) ==
    /\ threads[t].pc = "idle"
    /\ threads[t].result # None
    /\ ~threads[t].used
    /\ heap' = token_stream(heap, threads[t].result[1])
    /\ threads' = [threads EXCEPT ![t].used = TRUE]
    /\ UNCHANGED <<analyzers, rw_lock, registrations>>
    /\ AnalyzerFrame

NextAnalyzer ==
    \E t \in Threads :
        \/ RegisterCall(t) \/ AcquireWrite(t) \/ Insert(t) \/ ReleaseWrite(t)
        \/ GetCall(t) \/ AcquireRead(t) \/ Lookup(t) \/ ReleaseRead(t)
        \/ Use(t)

SpecAnalyzer == InitAnalyzer /\ [][NextAnalyzer]_vars


\* the analyzer registered last under a name, None when there is none
LastRegistered(analyzer_name) ==
    LET under == { i \in 1..Len(registrations) :
                     registrations[i].name = analyzer_name }
    IN IF under = {} THEN None
       ELSE Some(registrations[CHOOSE i \in under : \A j \in under : j <= i]
                     .analyzer)

\* the boxes the registry holds
Stored == { analyzers[n] : n \in DOMAIN analyzers }

\* the lock is held as register and get require
LockHeld ==
    \A t \in Threads :
        /\ threads[t].pc \in {"insert", "unlock_write"}
             => rw_lock.writer = Some(t) /\ rw_lock.readers = {}
        /\ threads[t].pc \in {"lookup", "unlock_read"}
             => t \in rw_lock.readers /\ rw_lock.writer = None

\* what a get just looked up, the read lock still held: None when the name
\* was never registered, else a box of its own holding a copy of the
\* analyzer registered last under the name
LookedUp ==
    \A t \in Threads :
        threads[t].pc = "unlock_read"
        => IF LastRegistered(threads[t].name) = None
           THEN threads[t].result = None
           ELSE /\ threads[t].result # None
                /\ threads[t].result[1] \in DOMAIN heap
                /\ threads[t].result[1] \notin Stored
                /\ \A u \in Threads \ {t} :
                      threads[u].result # threads[t].result
                /\ heap[threads[t].result[1]] =
                      [analyzer |-> LastRegistered(threads[t].name)[1],
                       touched |-> FALSE]

\* a step leaves the registry as it is unless it is an insert, which
\* changes the entry of its name alone
RegistryKept ==
    \A n \in DOMAIN analyzers :
        (registrations' = registrations
           \/ registrations'[Len(registrations')].name # n)
        => /\ n \in DOMAIN analyzers'
           /\ analyzers'[n] \in DOMAIN heap'
           /\ heap'[analyzers'[n]] = heap[analyzers[n]]

\* a step of other threads leaves what a get returned to a thread as it is
ResultKept ==
    \A t \in Threads :
        (threads'[t] = threads[t] /\ threads[t].result # None)
        => /\ threads[t].result[1] \in DOMAIN heap'
           /\ heap'[threads[t].result[1]] = heap[threads[t].result[1]]

\* C24: register inserts under the write lock and get looks up under the
\* read lock, so that for any interleaving of the calls of several threads
\* a get returns None when its name was never registered and otherwise a
\* clone of the analyzer registered last under the name; the clone is a box
\* of its own: using it, or a later register under the name, changes
\* neither what an earlier get returned nor what the registry stores.
C24_GetReturnsCloneOfLatest ==
    [][LockHeld' /\ LookedUp' /\ RegistryKept /\ ResultKept]_vars

\* C24 witness: a thread used the analyzer its get returned, another thread
\* has since registered another analyzer under the same name, and the
\* registry's box is untouched.
C24_Witness ==
    \E t \in Threads : \E u \in Threads \ {t} :
        /\ threads[t].pc = "idle" /\ threads[t].result # None
        /\ threads[t].used
        /\ heap[threads[t].result[1]].touched
        /\ registrations[Len(registrations)] =
              [name |-> threads[t].name, analyzer |-> RegisterAnalyzer(u),
               by |-> u]
        /\ heap[threads[t].result[1]].analyzer # RegisterAnalyzer(u)
        /\ heap[analyzers[threads[t].name]] =
              [analyzer |-> RegisterAnalyzer(u), touched |-> FALSE]

\* the names a default-constructed manager is specified to hold
DefaultNames == {"raw", "default", "en_stem", "ja"}

\* the names registered by the threads since the construction
RegisteredSince ==
    { registrations[i].name :
        i \in { j \in 1..Len(registrations) : registrations[j].by # 0 } }

BuilderOf(side_lower, side_upper) ==
    LET b0 == new_builder(term_dictionary)
        b1 == IF side_lower = None THEN b0
              ELSE IF side_lower[1].op = "ge" THEN ge(b0, side_lower[1].bound)
              ELSE gt(b0, side_lower[1].bound)
    IN IF side_upper = None THEN b1
       ELSE IF side_upper[1].op = "lt" THEN lt(b1, side_upper[1].bound)
       ELSE le(b1, side_upper[1].bound)

\* the upper bound's byte offset lies before the lower bound's
Inverted ==
    BuilderOf(lower, upper).offset_to < BuilderOf(lower, upper).offset_from

\* C31: when the bounds given to the builder are inverted (the upper
\* bound's offset lies before the lower bound's), into_stream() makes an
\* empty stream: its cursor is the empty slice at the lower offset, inside
\* the data, its advance() returns false and it yields no key.
C31_InvertedBoundsGiveEmptyStream ==
    (streamer # None /\ Inverted) =>
        /\ streamer[1].cursor.bytes = <<>>
        /\ streamer[1].cursor.ptr =
              term_dictionary.address + BuilderOf(lower, upper).offset_from
        /\ BuilderOf(lower, upper).offset_from <= Len(term_dictionary.stream_data)
        /\ ~stream_advance(streamer[1]).ok
        /\ stream_ret.yielded = <<>>
        /\ stream_ret.last \in {"none", "false"}

\* C31 witness: ge(b) and lt(a) with a < b were given, a key of the
\* dictionary lies between the two, and the stream's first advance()
\* returned false.
C31_Witness ==
    /\ streamer # None /\ stream_ret.last = "false"
    /\ lower # None /\ lower[1].op = "ge"
    /\ upper # None /\ upper[1].op = "lt"
    /\ slice_lt(upper[1].bound, lower[1].bound)
    /\ Inverted
    /\ \E n \in 1..Len(term_dictionary.keys) :
          /\ slice_le(upper[1].bound, term_dictionary.keys[n])
          /\ slice_lt(term_dictionary.keys[n], lower[1].bound)

\* the entries a stream yields until advance() returns false, in order
RECURSIVE DrainSeq(_)
DrainSeq(st) ==
    LET a == stream_advance(st)
    IN IF a.ok
       THEN <<[key |-> key(a.st), value |-> value(a.st)]>> \o DrainSeq(a.st)
       ELSE <<>>

\* a bound call by the operation's name
lower_call(b, op, bound) == IF op = "ge" THEN ge(b, bound) ELSE gt(b, bound)
upper_call(b, op, bound) == IF op = "lt" THEN lt(b, bound) ELSE le(b, bound)

\* a step that is a call of ge or gt, and one that is a call of lt or le
LowerCall == BoundCall /\ lower' # None /\ upper' = upper /\ builder' # builder
UpperCall == BoundCall /\ upper' # None /\ lower' = lower /\ builder' # builder

\* the two builders are the same and build streams yielding the same
\* entries in the same order
SameStream(b1, b2) ==
    /\ b1 = b2
    /\ DrainSeq(into_stream(b1)) = DrainSeq(into_stream(b2))

\* range().ge(a).le(b) and range().le(b).ge(a), for the bounds last given
LowerThenUpper ==
    upper_call(lower_call(new_builder(term_dictionary),
                          lower[1].op, lower[1].bound),
               upper[1].op, upper[1].bound)

UpperThenLower ==
    lower_call(upper_call(new_builder(term_dictionary),
                          upper[1].op, upper[1].bound),
               lower[1].op, lower[1].bound)

\* C32: a lower-bound call and an upper-bound call commute. With one lower
\* bound (ge or gt) and one upper bound (lt or le), giving the lower bound
\* first and giving the upper bound first make the same builder, the one
\* the calls made, and streams yielding the same keys and values in the
\* same order; a call of ge or gt changes only offset_from and current_key,
\* a call of lt or le changes only offset_to.
C32_LowerAndUpperBoundCommute ==
    /\ []((builder # None /\ lower # None /\ upper # None) =>
            (SameStream(LowerThenUpper, UpperThenLower)
             /\ builder[1] = LowerThenUpper))
    /\ [][(LowerCall =>
              (builder'[1] = [builder[1] EXCEPT
                                !.offset_from = builder'[1].offset_from,
                                !.current_key = builder'[1].current_key]))
          /\ (UpperCall =>
              (builder'[1] = [builder[1] EXCEPT
                                !.offset_to = builder'[1].offset_to]))
         ]_vars

\* C32 witness: a lower and an upper bound were given to the builder, each
\* leaves out a key of the dictionary, and the stream built yields a key.
C32_Witness ==
    /\ builder # None /\ lower # None /\ upper # None
    /\ builder[1] = UpperThenLower
    /\ builder[1].offset_from > 0
    /\ builder[1].offset_to < Len(term_dictionary.stream_data)
    /\ Len(DrainSeq(into_stream(builder[1]))) >= 1

\* ================================================ PositionComputer, again

\* a call of positions() or delta_positions() on a doc whose positions were
\* read since the cursor last moved
RereadStep ==
    /\ position_computer # None
    /\ pos_ret.op # "none" /\ pos_ret.outcome = "ok"
    /\ pos_ret'.op # "none"

\* the absolute positions a read returned or stands for
AsPositions(r) == IF r.op = "positions" THEN r.value ELSE cumulate(r.value)

\* C33: reading positions is idempotent between movements. A call of
\* positions() or delta_positions() on a doc whose positions were already
\* read returns the values the read before it returned, leaves the
\* position computer as it was (the positions stream is not consumed and
\* the skip counter stays cleared), and leaves the whole cursor as it was,
\* so that what the next advance() or skip_next() reaches and reads there
\* does not depend on the call.
C33_PositionsReadIsIdempotent ==
    [][RereadStep =>
        (/\ pos_ret'.outcome = "ok"
         /\ pos_ret'.again
         /\ AsPositions(pos_ret') = AsPositions(pos_ret)
         /\ (pos_ret'.op = pos_ret.op => pos_ret'.value = pos_ret.value)
         /\ position_computer' = position_computer
         /\ position_computer'[1].position_to_skip = None
         /\ self' = self)
    ]_vars

\* C33 witness: on a doc with several positions, reached after docs whose
\* positions were not read and followed by another doc, positions were
\* read more than once.
C33_Witness ==
    /\ OnDoc /\ position_computer # None
    /\ pos_ret.op = "positions" /\ pos_ret.again
    /\ Len(pos_ret.value) >= 2
    /\ DocIndex >= 2
    /\ position_computer[1].positions_stream > term_freq(self)
    /\ advance(self).ok

\* ======================================= BlockSegmentPostings, once more

\* a step that is a call of reset()
ResetStep == ret'.op = "reset" /\ block_cursor' # block_cursor

\* the blocks the advance() calls since opening or the last reset() decoded
Decoded == { i \in 1..Len(block_hist) : block_hist[i] # None }

\* C34: reset() changes only the block counts, the remaining data,
\* doc_offset and doc_freq. The decoder output is left as it is: right after
\* reset() docs() still returns what it returned before, the block last
\* decoded from the previous posting list when one was, while doc_freq()
\* is the length of the new list.
C34_ResetKeepsDecoderOutput ==
    [][ResetStep =>
        (/\ block_cursor' =
               [block_cursor EXCEPT
                   !.num_binpacked_blocks = block_cursor'.num_binpacked_blocks,
                   !.num_vint_docs = block_cursor'.num_vint_docs,
                   !.remaining_data = block_cursor'.remaining_data,
                   !.doc_offset = block_cursor'.doc_offset,
                   !.doc_freq = block_cursor'.doc_freq]
         /\ docs(block_cursor') = docs(block_cursor)
         /\ freqs(block_cursor') = freqs(block_cursor)
         /\ (Decoded # {} =>
               /\ docs(block_cursor') # <<>>
               /\ \E i \in Decoded :
                     /\ \A j \in Decoded : j <= i
                     /\ docs(block_cursor') = BlockOf(postings, i))
         /\ doc_freq(block_cursor') = Len(postings'.docs)
         /\ block_cursor'.doc_offset = 0)
    ]_vars

\* C34 witness: right after a reset() onto a posting list of another
\* length, docs() holds a block that is not a block of the new list.
C34_Witness ==
    /\ ret.op = "reset"
    /\ docs(block_cursor) # <<>>
    /\ \A i \in 1..NumBlocks(Len(postings.docs)) :
          docs(block_cursor) # BlockOf(postings, i)
    /\ doc_freq(block_cursor) = Len(postings.docs)
    /\ Len(postings.docs) > Len(docs(block_cursor))

\* ================================================= ExcludeScorer, again

\* advance() calls made on a VecPostings since VecPostings::from: skip_next
\* makes at least one
Advances(v) == v.cursor + 1

\* a step that is a call of advance() or skip_next() on the scorer
ExcludeCallStep == ex_ret' # ex_ret \/ underlying_docset' # underlying_docset

\* the call of the step made on the underlying docset alone: what it
\* returns and the docset after it
UnderlyingAlone ==
    IF ex_ret'.op = "advance"
    THEN LET a == vec_advance(underlying_docset)
         IN [result |-> IF a.ok THEN "true" ELSE "false", ds |-> a.ds]
    ELSE vec_skip_next(underlying_docset, ex_ret'.target)

\* C35: the excluding-state machine of ExcludeScorer. Construction has
\* advanced the excluding docset exactly once and the underlying docset not
\* at all, the state being ExcludeOne of the excluding docset's first doc
\* or Finished when it has none; from Finished the state stays Finished and
\* the excluding docset is not called again; and with an empty excluding
\* docset every advance() and skip_next() returns what the underlying
\* docset alone returns and leaves it on the same doc.
C35_ExcludingStateMachine ==
    /\ [](ex_ret.op = "new" =>
            (/\ Advances(underlying_docset) = 0
             /\ Advances(excluding_docset) = 1
             /\ excluding_state =
                   IF excluding_docset.doc_ids = <<>> THEN Finished
                   ELSE ExcludeOne(excluding_docset.doc_ids[1])))
    /\ [][(ExcludeCallStep /\ excluding_state = Finished) =>
              (/\ excluding_state' = Finished
               /\ excluding_docset' = excluding_docset)]_vars
    /\ [][(ExcludeCallStep /\ excluding_docset.doc_ids = <<>>) =>
              (/\ ex_ret'.result = UnderlyingAlone.result
               /\ underlying_docset' = UnderlyingAlone.ds)]_vars

\* C35 witness: a scorer over an empty excluding docset, Finished since its
\* construction, answered a skip_next() after another call with OverStep;
\* the excluding docset has still been advanced once only.
C35_Witness ==
    /\ excluding_docset.doc_ids = <<>> /\ excluding_state = Finished
    /\ ex_ret.op = "skip_next" /\ ~ex_ret.first
    /\ ex_ret.result = "OverStep"
    /\ Advances(excluding_docset) = 1
    /\ Advances(underlying_docset) >= 3

====
